---------------------------- MODULE Spec2Model ----------------------------
(***************************************************************************)
(* Restaurant booking agents behind the A2A protocol.                      *)
(*                                                                         *)
(* Part I   - the booking ledgers: one SQLite store per agent, read by     *)
(*            check_availability and written by book_table.                *)
(* Part II  - the protocol bridges: TakoyakiTaroAgentExecutor (ADK) and    *)
(*            TokyoRamenAgentExecutor (LangGraph), execute and cancel.     *)
(* Part III - the coordinator: RestaurantBookingCoordinator discovers the  *)
(*            agents and queries them.                                     *)
(* Part IV  - the part converters of the Takoyaki Taro bridge as functions *)
(*            of their input.                                              *)
(***************************************************************************)
EXTENDS Integers, Sequences, FiniteSets, TLC

(***************************************************************************)
(* Bounds of the model                                                     *)
(***************************************************************************)
\* book_table / check_availability calls started in one behaviour
MaxCalls == 2
\* rows of a store that exists before the agents start (SeqSpec)
MaxPreRows == 2
\* execute / cancel requests received by the bridges in one behaviour
MaxRequests == 2
\* events the wrapped runtime streams during one execute
MaxStream == 1
\* coordinator operations started in one behaviour
MaxOps == 2
\* times an agent endpoint goes up or down in one behaviour
MaxFlips == 2
\* parts of a list given to a converter
MaxParts == 3
\* rows of a store up to which an agent is started again
MaxStoreRows == 6

(***************************************************************************)
(* Part I - booking ledgers                                                *)
(***************************************************************************)
VARIABLES
    ledger,             \* agent -> committed rows of its bookings table
    writer,             \* agent -> the call holding the store's write lock
    call,               \* thread -> the tool call it runs (op and arguments)
    pc,                 \* thread -> position inside the call
    existing_bookings,  \* thread -> the local read by SELECT COUNT(*)
    booking_id,         \* thread -> cursor.lastrowid of its INSERT
    result,             \* thread -> what the call returned
    ncalls              \* calls started so far

ledgerVars == <<ledger, writer, call, pc, existing_bookings, booking_id, result, ncalls>>

(***************************************************************************)
(* Part II - protocol bridges                                              *)
(***************************************************************************)
VARIABLES
    server,             \* the executor this agent process serves requests with
    tasks,              \* task id -> the task the server's task store holds
    queue,              \* request slot -> what TaskUpdater put on its event queue
    exec,               \* request slot -> the execute / cancel request it handles
    nrequests           \* requests received so far

bridgeVars == <<server, tasks, queue, exec, nrequests>>

(***************************************************************************)
(* Part III - coordinator                                                  *)
(***************************************************************************)
VARIABLES
    endpoint,           \* restaurant name -> what its agent endpoint does to a request
    nflips,             \* endpoint changes so far
    cop,                \* the coordinator operation in progress
    target,             \* restaurant_name, for the operations on one restaurant
    cpc,                \* position inside the operation
    idx,                \* position of the for loop the operation is in
    available,          \* available_restaurants: the names discovered, in insertion order
    results,            \* the per-agent results collected so far
    outstanding,        \* names whose query has been sent and not yet answered
    sent,               \* the query messages sent during the operation
    ret,                \* what the operation returned
    began,              \* nflips when the discovery in progress began
    last,               \* the result of the previous discovery and when it began
    nops                \* operations started so far

coordVars == <<endpoint, nflips, cop, target, cpc, idx, available, results, outstanding, sent,
               ret, began, last, nops>>

(***************************************************************************)
(* Part IV - converters                                                    *)
(***************************************************************************)
VARIABLES
    cdir,               \* the converter that is applied
    cin,                \* the parts it is given
    cout,               \* what it returns or raises
    cback,              \* what the opposite list converter makes of the result
    cstep               \* 0: not called, 1: converted, 2: converted back

convVars == <<cdir, cin, cout, cback, cstep>>

vars == <<ledgerVars, bridgeVars, coordVars, convVars>>

\* the two executors of the repository and the requests they serve
Bridges == {"TakoyakiTaroAgentExecutor", "TokyoRamenAgentExecutor"}
TakoyakiBridge == "TakoyakiTaroAgentExecutor"
RamenBridge == "TokyoRamenAgentExecutor"
TaskIds == {"task-1", "task-2"}
Execs == {"r1", "r2"}
None == "None"

\* context.message: its parts, or no message at all
Message(parts) == [present |-> TRUE, parts |-> parts]
NoMessage == [present |-> FALSE, parts |-> <<>>]

NoRequest ==
    [op |-> "none", task_id |-> None, context_id |-> None, message |-> NoMessage,
     current_task |-> FALSE, pc |-> "idle", streamed |-> 0, event |-> "none",
     caught |-> FALSE, outcome |-> "none"]

\* a task id the task store has never seen
NoTask == [state |-> "unknown", artifacts |-> <<>>]

Sushi == "Sushi Maru"
Ramen == "Tokyo Ramen"
Takoyaki == "Takoyaki Taro"
Agents == {Sushi, Ramen, Takoyaki}

\* self.restaurants, in the order the dict is written
Table == <<Sushi, Ramen, Takoyaki>>
\* an endpoint serves its card and answers, refuses or times out, or serves a
\* card that does not parse
EndpointStates == {"up", "unreachable", "malformed"}
NoReturn == [kind |-> "none", keys |-> <<>>, entries |-> <<>>]
NoDiscovery == [has |-> FALSE, keys |-> <<>>, began |-> 0]

Threads == {"w1", "w2"}
NoThread == "none"

Dates == {"2025-07-24", "2025-07-25"}
Times == {"18:00", "19:00"}
\* the (date, time) keys the calls of the model ask about
Slots == {<<"2025-07-25", "18:00">>, <<"2025-07-25", "19:00">>, <<"2025-07-24", "18:00">>}
PartySizes == {2, 4}
Customers == {"Alice"}

NoId == 0

Row(id, date, time, party_size, customer_name, status) ==
    [id |-> id, date |-> date, time |-> time, party_size |-> party_size,
     customer_name |-> customer_name, status |-> status]

\* INTEGER PRIMARY KEY AUTOINCREMENT: one more than the largest id of the table
\* (no row is ever deleted, so this is also what sqlite_sequence holds)
RECURSIVE MaxId(_)
MaxId(rows) ==
    IF rows = <<>> THEN 0
    ELSE LET m == MaxId(Tail(rows)) IN IF Head(rows).id > m THEN Head(rows).id ELSE m

\* INSERT INTO bookings (date, time, party_size, customer_name, status) VALUES (...)
InsertRow(rows, date, time, party_size, customer_name, status) ==
    Append(rows, Row(MaxId(rows) + 1, date, time, party_size, customer_name, status))

\* variant: the status filter is left out of the WHERE clause
CountConfirmed_AnyStatus(rows, date, time) ==
    Cardinality({i \in DOMAIN rows : rows[i].date = date /\ rows[i].time = time})

\* SELECT COUNT(*) FROM bookings WHERE date = ? AND time = ? AND status = 'confirmed'
CountConfirmed(rows, date, time) ==
    Cardinality({i \in DOMAIN rows :
        /\ rows[i].date = date
        /\ rows[i].time = time
        /\ rows[i].status = "confirmed"})

\* the sample bookings of create_database / create_restaurant_db
SampleBookings ==
    << [date |-> "2025-07-25", time |-> "18:00", party_size |-> 2,
        customer_name |-> "John Smith", status |-> "confirmed"],
       [date |-> "2025-07-25", time |-> "20:00", party_size |-> 4,
        customer_name |-> "Alice Johnson", status |-> "confirmed"] >>

\* the sample bookings of Sushi Maru's init_database
SushiSampleBookings ==
    << [date |-> "2025-07-24", time |-> "18:00", party_size |-> 2,
        customer_name |-> "Sample Customer 1", status |-> "confirmed"],
       [date |-> "2025-07-24", time |-> "20:00", party_size |-> 4,
        customer_name |-> "Sample Customer 2", status |-> "confirmed"] >>

\* conn.executemany(INSERT ..., samples)
RECURSIVE ExecuteMany(_, _)
ExecuteMany(rows, samples) ==
    IF samples = <<>> THEN rows
    ELSE LET s == Head(samples) IN
         ExecuteMany(InsertRow(rows, s.date, s.time, s.party_size, s.customer_name, s.status),
                     Tail(samples))

\* setup_databases.py: remove the file, create the table, insert the samples
create_restaurant_db == ExecuteMany(<<>>, SampleBookings)

\* sushi_maru_agent.py: samples are added only if the table is empty
init_database(rows) ==
    IF Len(rows) = 0 THEN ExecuteMany(rows, SushiSampleBookings) ELSE rows

\* takoyaki / tokyo ramen: INSERT OR IGNORE of the samples; the table has no
\* unique key but the autoincrement id, so nothing is ever ignored
create_database(rows) == ExecuteMany(rows, SampleBookings)

\* what an agent's main() does to its store before serving
AgentMain(a, rows) == IF a = Sushi THEN init_database(rows) ELSE create_database(rows)


(***************************************************************************)
(* The availability thresholds, as each tool writes them                   *)
(***************************************************************************)
\* variant: sushi's check compares with > 1 instead of == 0
CheckSaysFull_SushiOffByOne(a, n) ==
    CASE a = Sushi -> n > 1
      [] a = Takoyaki -> n >= 2
      [] a = Ramen -> n >= 3

\* check_availability: the branch that answers "no tables available"
\*   sushi: not (existing_bookings == 0); takoyaki: >= 2; tokyo ramen: >= 3
CheckSaysFull(a, n) ==
    CASE a = Sushi -> ~(n = 0)
      [] a = Takoyaki -> n >= 2
      [] a = Ramen -> n >= 3

\* variant: book_table compares with > where the code has >=
BookSaysFull_OffByOne(a, n) ==
    CASE a = Sushi -> n > 0
      [] a = Takoyaki -> n > 2
      [] a = Ramen -> n > 3

\* book_table: the branch that closes the connection and rejects
\*   sushi: existing_bookings > 0; takoyaki: >= 2; tokyo ramen: >= 3
BookSaysFull(a, n) ==
    CASE a = Sushi -> n > 0
      [] a = Takoyaki -> n >= 2
      [] a = Ramen -> n >= 3

\* only the takoyaki and tokyo ramen tools read cursor.lastrowid and put it in
\* the confirmation; sushi's confirmation carries no reservation number
ReturnsId(a) == a \in {Takoyaki, Ramen}

Result(kind, id) == [kind |-> kind, id |-> id]
NoResult == Result("none", NoId)

NoCall == [op |-> "none", agent |-> Sushi, date |-> "", time |-> "",
           party_size |-> 0, customer_name |-> ""]

NewCall(op, a, date, time, party_size, customer_name) ==
    [op |-> op, agent |-> a, date |-> date, time |-> time,
     party_size |-> party_size, customer_name |-> customer_name]

\* a thread can take a new tool call when it runs none
Free(t) == pc[t] \in {"idle", "done"}

(***************************************************************************)
(* check_availability(date, time, party_size): one SELECT, then the answer *)
(***************************************************************************)
\* the answer on a store holding `rows`; party_size only appears in the text
AvailabilityAnswer(a, rows, date, time, party_size) ==
    IF CheckSaysFull(a, CountConfirmed(rows, date, time)) THEN "unavailable" ELSE "available"

\* a variant of check_availability that holds the table it found free
check_availability_HoldsTable(t, a, date, time, party_size) ==
    /\ Free(t)
    /\ ncalls < MaxCalls
    /\ ncalls' = ncalls + 1
    /\ call' = [call EXCEPT ![t] = NewCall("check_availability", a, date, time, party_size, "")]
    /\ existing_bookings' = [existing_bookings EXCEPT ![t] = CountConfirmed(ledger[a], date, time)]
    /\ result' = [result EXCEPT ![t] = Result(AvailabilityAnswer(a, ledger[a], date, time, party_size), NoId)]
    /\ booking_id' = [booking_id EXCEPT ![t] = NoId]
    /\ pc' = [pc EXCEPT ![t] = "done"]
    /\ ledger' = IF AvailabilityAnswer(a, ledger[a], date, time, party_size) = "available"
                 THEN [ledger EXCEPT ![a] = InsertRow(@, date, time, party_size, "", "confirmed")]
                 ELSE ledger
    /\ UNCHANGED writer
    /\ UNCHANGED <<bridgeVars, coordVars, convVars>>

check_availability(t, a, date, time, party_size) ==
    /\ Free(t)
    /\ ncalls < MaxCalls
    /\ ncalls' = ncalls + 1
    /\ call' = [call EXCEPT ![t] = NewCall("check_availability", a, date, time, party_size, "")]
    /\ existing_bookings' = [existing_bookings EXCEPT ![t] = CountConfirmed(ledger[a], date, time)]
    /\ result' = [result EXCEPT ![t] = Result(AvailabilityAnswer(a, ledger[a], date, time, party_size), NoId)]
    /\ booking_id' = [booking_id EXCEPT ![t] = NoId]
    /\ pc' = [pc EXCEPT ![t] = "done"]
    /\ UNCHANGED <<ledger, writer>>
    /\ UNCHANGED <<bridgeVars, coordVars, convVars>>

(***************************************************************************)
(* book_table(date, time, party_size, customer_name), statement by         *)
(* statement: the SELECT runs outside any transaction, the INSERT opens    *)
(* one and takes the store's write lock, commit() publishes the row.       *)
(***************************************************************************)
\* connect; SELECT COUNT(*) ...; existing_bookings = cursor.fetchone()[0]
book_select(t, a, date, time, party_size, customer_name) ==
    /\ Free(t)
    /\ ncalls < MaxCalls
    /\ ncalls' = ncalls + 1
    /\ call' = [call EXCEPT ![t] = NewCall("book_table", a, date, time, party_size, customer_name)]
    /\ existing_bookings' = [existing_bookings EXCEPT ![t] = CountConfirmed(ledger[a], date, time)]
    /\ booking_id' = [booking_id EXCEPT ![t] = NoId]
    /\ result' = [result EXCEPT ![t] = NoResult]
    /\ pc' = [pc EXCEPT ![t] = "counted"]
    /\ UNCHANGED <<ledger, writer>>
    /\ UNCHANGED <<bridgeVars, coordVars, convVars>>

\* a variant of book_reject that keeps a record of the refused attempt in
\* the bookings table
book_reject_RecordsAttempt(t) ==
    /\ pc[t] = "counted"
    /\ BookSaysFull(call[t].agent, existing_bookings[t])
    /\ LET c == call[t] IN
        ledger' = [ledger EXCEPT ![c.agent] =
                Append(@, Row(MaxId(@) + 1, c.date, c.time, c.party_size,
                              c.customer_name, "rejected"))]
    /\ result' = [result EXCEPT ![t] = Result("rejected", NoId)]
    /\ pc' = [pc EXCEPT ![t] = "done"]
    /\ UNCHANGED <<writer, call, existing_bookings, booking_id, ncalls>>
    /\ UNCHANGED <<bridgeVars, coordVars, convVars>>

\* if existing_bookings >= capacity: conn.close(); return "Sorry, no tables ..."
book_reject(t) ==
    /\ pc[t] = "counted"
    /\ BookSaysFull(call[t].agent, existing_bookings[t])
    /\ result' = [result EXCEPT ![t] = Result("rejected", NoId)]
    /\ pc' = [pc EXCEPT ![t] = "done"]
    /\ UNCHANGED <<ledger, writer, call, existing_bookings, booking_id, ncalls>>
    /\ UNCHANGED <<bridgeVars, coordVars, convVars>>

\* INSERT INTO bookings ...; booking_id = cursor.lastrowid
\* the implicit BEGIN takes the write lock; while another connection holds it
\* the statement waits (sqlite3.connect's busy timeout), so the step is taken
\* once the lock is free
book_insert(t) ==
    /\ pc[t] = "counted"
    /\ ~BookSaysFull(call[t].agent, existing_bookings[t])
    /\ writer[call[t].agent] = NoThread
    /\ writer' = [writer EXCEPT ![call[t].agent] = t]
    /\ booking_id' = [booking_id EXCEPT ![t] = MaxId(ledger[call[t].agent]) + 1]
    /\ pc' = [pc EXCEPT ![t] = "inserted"]
    /\ UNCHANGED <<ledger, call, existing_bookings, result, ncalls>>
    /\ UNCHANGED <<bridgeVars, coordVars, convVars>>

\* a variant of book_commit whose statement is INSERT OR REPLACE on the id of
\* the newest row
book_commit_ReplacesNewest(t) ==
    /\ pc[t] = "inserted"
    /\ LET c == call[t]
           rows == ledger[c.agent]
           kept == IF rows = <<>> THEN rows ELSE SubSeq(rows, 1, Len(rows) - 1)
       IN
        /\ ledger' = [ledger EXCEPT ![c.agent] =
                Append(kept, Row(booking_id[t], c.date, c.time, c.party_size,
                                 c.customer_name, "confirmed"))]
        /\ result' = [result EXCEPT ![t] =
                Result("confirmed", IF ReturnsId(c.agent) THEN booking_id[t] ELSE NoId)]
    /\ writer' = [writer EXCEPT ![call[t].agent] = NoThread]
    /\ pc' = [pc EXCEPT ![t] = "done"]
    /\ UNCHANGED <<call, existing_bookings, booking_id, ncalls>>
    /\ UNCHANGED <<bridgeVars, coordVars, convVars>>

\* a variant of book_commit in which the agents open one database file
book_commit_SharedFile(t) ==
    /\ pc[t] = "inserted"
    /\ LET c == call[t] IN
        /\ ledger' = [a \in Agents |->
                Append(ledger[a], Row(booking_id[t], c.date, c.time, c.party_size,
                                      c.customer_name, "confirmed"))]
        /\ result' = [result EXCEPT ![t] =
                Result("confirmed", IF ReturnsId(c.agent) THEN booking_id[t] ELSE NoId)]
    /\ writer' = [writer EXCEPT ![call[t].agent] = NoThread]
    /\ pc' = [pc EXCEPT ![t] = "done"]
    /\ UNCHANGED <<call, existing_bookings, booking_id, ncalls>>
    /\ UNCHANGED <<bridgeVars, coordVars, convVars>>

\* conn.commit(); conn.close(); return "Booking confirmed! ..."
book_commit(t) ==
    /\ pc[t] = "inserted"
    /\ LET c == call[t] IN
        /\ ledger' = [ledger EXCEPT ![c.agent] =
                Append(@, Row(booking_id[t], c.date, c.time, c.party_size,
                              c.customer_name, "confirmed"))]
        /\ result' = [result EXCEPT ![t] =
                Result("confirmed", IF ReturnsId(c.agent) THEN booking_id[t] ELSE NoId)]
    /\ writer' = [writer EXCEPT ![call[t].agent] = NoThread]
    /\ pc' = [pc EXCEPT ![t] = "done"]
    /\ UNCHANGED <<call, existing_bookings, booking_id, ncalls>>
    /\ UNCHANGED <<bridgeVars, coordVars, convVars>>

(***************************************************************************)
(* "Cancel booking for <customer_name> on <date> at <time>": the query the *)
(* coordinator sends. Every agent is built with                            *)
(* tools=[check_availability, book_table]; no statement of any agent       *)
(* updates or deletes a row, so the agent answers in words and the store   *)
(* is not written.                                                         *)
(***************************************************************************)
\* the customers a cancellation query names
CancelCustomers == Customers \cup {"John Smith"}

cancel_query(t, a, date, time, customer_name) ==
    /\ Free(t)
    /\ ncalls < MaxCalls
    /\ ncalls' = ncalls + 1
    /\ call' = [call EXCEPT ![t] = NewCall("cancel", a, date, time, 0, customer_name)]
    /\ existing_bookings' = [existing_bookings EXCEPT ![t] = 0]
    /\ booking_id' = [booking_id EXCEPT ![t] = NoId]
    /\ result' = [result EXCEPT ![t] = Result("no_cancel_tool", NoId)]
    /\ pc' = [pc EXCEPT ![t] = "done"]
    /\ UNCHANGED <<ledger, writer>>
    /\ UNCHANGED <<bridgeVars, coordVars, convVars>>

(***************************************************************************)
(* Initial states                                                          *)
(***************************************************************************)
\* no request has reached a bridge
BridgesIdle ==
    /\ tasks = [k \in TaskIds |-> NoTask]
    /\ queue = [e \in Execs |-> <<>>]
    /\ exec = [e \in Execs |-> NoRequest]
    /\ nrequests = 0

\* the coordinator has not been asked anything
CoordinatorIdle ==
    /\ nflips = 0
    /\ cop = "none"
    /\ target = None
    /\ cpc = "idle"
    /\ idx = 1
    /\ available = <<>>
    /\ results = <<>>
    /\ outstanding = {}
    /\ sent = <<>>
    /\ ret = NoReturn
    /\ began = 0
    /\ last = NoDiscovery
    /\ nops = 0

\* no converter under study
NotConverted == [ok |-> FALSE, parts |-> <<>>]
ConverterIdle ==
    /\ cdir = "none"
    /\ cin = <<>>
    /\ cout = NotConverted
    /\ cback = NotConverted
    /\ cstep = 0

ThreadsInit ==
    /\ CoordinatorIdle
    /\ writer = [a \in Agents |-> NoThread]
    /\ call = [t \in Threads |-> NoCall]
    /\ pc = [t \in Threads |-> "idle"]
    /\ existing_bookings = [t \in Threads |-> 0]
    /\ booking_id = [t \in Threads |-> NoId]
    /\ result = [t \in Threads |-> NoResult]
    /\ ncalls = 0
    /\ BridgesIdle

\* the stores after each agent's main() has initialised its database, either on
\* no file at all or on the files written by setup_databases.py
LedgerInit ==
    /\ \/ ledger = [a \in Agents |-> AgentMain(a, <<>>)]
       \/ ledger = [a \in Agents |-> AgentMain(a, create_restaurant_db)]
    /\ ThreadsInit
    /\ server = TakoyakiBridge
    /\ endpoint = [n \in Agents |-> "up"]
    /\ ConverterIdle

\* rows a store may hold when an agent starts on an existing file: the table
\* has a free-text status column, and CREATE TABLE IF NOT EXISTS keeps them
PreRowShapes ==
    [date : {"2025-07-25"}, time : Times, party_size : {2},
     customer_name : {"John Smith"}, status : {"confirmed", "cancelled"}]

PreStores ==
    UNION {{ExecuteMany(<<>>, s) : s \in [1..n -> PreRowShapes]} : n \in 0..MaxPreRows}

\* every agent starts on a copy of the same existing store
SeqInit ==
    /\ \E rows \in PreStores : ledger = [a \in Agents |-> rows]
    /\ ThreadsInit
    /\ server = TakoyakiBridge
    /\ endpoint = [n \in Agents |-> "up"]
    /\ ConverterIdle

(***************************************************************************)
(* Specifications of the ledgers                                           *)
(***************************************************************************)
\* concurrent tool calls: any thread takes any step
LedgerNext ==
    \E t \in Threads :
        \/ \E a \in Agents, s \in Slots, p \in PartySizes :
                check_availability(t, a, s[1], s[2], p)
        \/ \E a \in Agents, s \in Slots, p \in PartySizes, c \in Customers :
                book_select(t, a, s[1], s[2], p, c)
        \/ book_reject(t)
        \/ book_insert(t)
        \/ book_commit(t)

Spec == LedgerInit /\ [][LedgerNext]_vars

\* one caller: each call returns before the next one starts
SeqNext ==
    \/ \E a \in Agents, s \in Slots, p \in PartySizes :
            check_availability("w1", a, s[1], s[2], p)
    \/ \E a \in Agents, s \in Slots, p \in PartySizes, c \in Customers :
            book_select("w1", a, s[1], s[2], p, c)
    \/ book_reject("w1")
    \/ book_insert("w1")
    \/ book_commit("w1")

SeqSpec == SeqInit /\ [][SeqNext]_vars

\* one caller whose queries also ask the agent to cancel a booking
AgentNext ==
    \/ \E a \in Agents, s \in Slots, p \in PartySizes :
            check_availability("w1", a, s[1], s[2], p)
    \/ \E a \in Agents, s \in Slots, p \in PartySizes, c \in Customers :
            book_select("w1", a, s[1], s[2], p, c)
    \/ book_reject("w1")
    \/ book_insert("w1")
    \/ book_commit("w1")
    \/ \E a \in Agents, s \in Slots, c \in CancelCustomers :
            cancel_query("w1", a, s[1], s[2], c)

AgentSpec == SeqInit /\ [][AgentNext]_vars

\* main(): the agent process is started (again) on the store its file holds;
\* no tool call is running in a process that is only starting
agent_main(a) ==
    /\ \A t \in Threads : Free(t)
    /\ Len(AgentMain(a, ledger[a])) <= MaxStoreRows
    /\ ledger' = [ledger EXCEPT ![a] = AgentMain(a, @)]
    /\ UNCHANGED <<writer, call, pc, existing_bookings, booking_id, result, ncalls>>
    /\ UNCHANGED <<bridgeVars, coordVars, convVars>>

\* agents are started and restarted between the tool calls of one caller
RestartNext ==
    \/ \E a \in Agents : agent_main(a)
    \/ \E a \in Agents, s \in Slots, p \in PartySizes :
            check_availability("w1", a, s[1], s[2], p)
    \/ \E a \in Agents, s \in Slots, p \in PartySizes, c \in Customers :
            book_select("w1", a, s[1], s[2], p, c)
    \/ book_reject("w1")
    \/ book_insert("w1")
    \/ book_commit("w1")

RestartSpec == LedgerInit /\ [][RestartNext]_vars


(***************************************************************************)
(* Properties of the ledgers                                               *)
(***************************************************************************)
\* the capacity rule of each agent: confirmed bookings allowed per (date, time)
Capacity(a) ==
    CASE a = Sushi -> 1
      [] a = Takoyaki -> 2
      [] a = Ramen -> 3

\* every (date, time) key that occurs in a store or in a call of the model
AllSlots(rows) == Slots \cup {<<rows[i].date, rows[i].time>> : i \in DOMAIN rows}

\* the confirmed bookings a store holds at one (date, time) key
SlotLoad(rows, date, time) ==
    Cardinality({i \in DOMAIN rows :
        rows[i].date = date /\ rows[i].time = time /\ rows[i].status = "confirmed"})

Returned(t) == pc[t] = "done"

\* C1: in every reachable state, for every agent and every (date, time) slot,
\* the number of confirmed bookings is at most the agent's capacity, also when
\* book_table calls interleave their count query and their insert.
C1_CapacityInvariant ==
    \A a \in Agents : \A s \in AllSlots(ledger[a]) :
        SlotLoad(ledger[a], s[1], s[2]) <= Capacity(a)

\* C2: when N book calls, N above the capacity C, are the only calls made and
\* all target the same slot of one ledger, a slot holding nothing but what they
\* insert, then once all have returned exactly C returned a confirmation,
\* exactly N - C a capacity rejection, and the slot holds C confirmed bookings.
C2_ExactlyCapacityConfirmed ==
    \A a \in Agents : \A s \in Slots :
        LET N == Cardinality(Threads)
            confirmed == {t \in Threads : result[t].kind = "confirmed"}
            rejected == {t \in Threads : result[t].kind = "rejected"}
        IN  ( /\ ncalls = N
              /\ N > Capacity(a)
              /\ \A t \in Threads :
                    /\ Returned(t)
                    /\ call[t].op = "book_table"
                    /\ call[t].agent = a
                    /\ <<call[t].date, call[t].time>> = s
              /\ SlotLoad(ledger[a], s[1], s[2]) = Cardinality(confirmed) )
            => /\ Cardinality(confirmed) = Capacity(a)
               /\ Cardinality(rejected) = N - Capacity(a)
               /\ SlotLoad(ledger[a], s[1], s[2]) = Capacity(a)

\* the one caller of SeqSpec
Caller == "w1"

\* the call of the caller has executed its INSERT and the row is in the store
Inserted ==
    /\ booking_id[Caller] # NoId
    /\ \E i \in DOMAIN ledger[call[Caller].agent] :
            ledger[call[Caller].agent][i].id = booking_id[Caller]

\* the store of the called agent as it was when the caller's call started: in
\* a sequential series the only change since is the call's own row
StoreBefore ==
    LET rows == ledger[call[Caller].agent] IN
    IF Inserted THEN SubSeq(rows, 1, Len(rows) - 1) ELSE rows

C4_AvailabilityIffUnderCapacity ==
    (Returned(Caller) /\ call[Caller].op = "check_availability") =>
        LET c == call[Caller] IN
        /\ result[Caller].kind \in {"available", "unavailable"}
        /\ (result[Caller].kind = "available")
                <=> (SlotLoad(ledger[c.agent], c.date, c.time) < Capacity(c.agent))

\* C4 witness: sushi (capacity 1) answers available for a party of 4 on a slot
\* whose only row is cancelled while another slot of the store is booked.
C4_Witness ==
    /\ Returned(Caller)
    /\ call[Caller].op = "check_availability"
    /\ call[Caller].agent = Sushi
    /\ call[Caller].party_size = 4
    /\ result[Caller].kind = "available"
    /\ LET c == call[Caller]
           rows == ledger[Sushi]
       IN  /\ \E i \in DOMAIN rows :
                rows[i].date = c.date /\ rows[i].time = c.time /\ rows[i].status = "cancelled"
           /\ \E i \in DOMAIN rows :
                rows[i].status = "confirmed" /\ <<rows[i].date, rows[i].time>> # <<c.date, c.time>>

\* C5: a book call executed alone inserts a booking iff check_availability,
\* asked about the same slot in the state the call started in, reports available.
C5_BookAgreesWithCheck ==
    (Returned(Caller) /\ call[Caller].op = "book_table") =>
        LET c == call[Caller] IN
        \A p \in PartySizes :
            Inserted <=> (AvailabilityAnswer(c.agent, StoreBefore, c.date, c.time, p) = "available")

\* C5 witness: both outcomes at one agent: sushi has inserted a booking into a
\* free slot, and the store holds a row that makes another slot unavailable.
C5_Witness ==
    /\ Returned(Caller)
    /\ call[Caller].op = "book_table"
    /\ call[Caller].agent = Sushi
    /\ Inserted
    /\ result[Caller].kind = "confirmed"
    /\ SlotLoad(StoreBefore, call[Caller].date, call[Caller].time) = 0
    /\ \E i \in DOMAIN StoreBefore : StoreBefore[i].status = "cancelled"

\* the slot a book_table call names holds as many confirmed bookings as the
\* agent seats
FullFor(c) == SlotLoad(ledger[c.agent], c.date, c.time) >= Capacity(c.agent)

\* C30: a book_table call on a full slot is refused with an ordinary return
\* value: from its first statement to its return the call leaves the ledger
\* exactly as it was (no row added, none changed), and what it returns is
\* the rejection message, not an error.
C30_FullSlotBookingIsRejectedWithoutEffect ==
    [][ /\ (pc'[Caller] = "counted" /\ FullFor(call'[Caller])) => ledger' = ledger
        /\ (pc[Caller] = "counted" /\ FullFor(call[Caller])) =>
                /\ pc'[Caller] = "done"
                /\ result'[Caller] = Result("rejected", NoId)
                /\ ledger' = ledger
                /\ writer' = writer ]_vars

\* C30 witness: a book_table call on a full slot of a store that holds rows
\* has returned its rejection.
C30_Witness ==
    /\ Returned(Caller)
    /\ call[Caller].op = "book_table"
    /\ FullFor(call[Caller])
    /\ result[Caller] = Result("rejected", NoId)
    /\ ledger[call[Caller].agent] # <<>>
    /\ ~Inserted

\* the rows of a store that are confirmed bookings of (date, time, customer)
Matching(rows, c) ==
    {i \in DOMAIN rows :
        /\ rows[i].date = c.date
        /\ rows[i].time = c.time
        /\ rows[i].customer_name = c.customer_name
        /\ rows[i].status = "confirmed"}

\* C31: a cancellation sent to an agent whose ledger holds a confirmed
\* booking matching (date, time, customer name) sets the status of one such
\* booking to cancelled, so that the slot's confirmed count drops by one,
\* and changes no other row.
C31_CancelMarksMatchingBookingCancelled ==
    [][ LET c == call'[Caller]
            rows == ledger[c.agent]
            after == ledger'[c.agent]
        IN  (ncalls' = ncalls + 1 /\ c.op = "cancel" /\ Matching(rows, c) # {}) =>
                /\ Len(after) = Len(rows)
                /\ \E i \in Matching(rows, c) :
                        /\ after[i] = [rows[i] EXCEPT !.status = "cancelled"]
                        /\ \A j \in DOMAIN rows \ {i} : after[j] = rows[j]
                /\ SlotLoad(after, c.date, c.time) = SlotLoad(rows, c.date, c.time) - 1
                /\ \A b \in Agents \ {c.agent} : ledger'[b] = ledger[b] ]_vars

\* C34: ledgers are isolated per agent. Whatever calls interleave, a step
\* changes the store of at most one agent, and only as the commit of a
\* book_table call made to that agent; the answer a tool call computes is a
\* function of the store of the agent it was made to, so bookings made at
\* another agent never change it.
C34_LedgersAreIsolated ==
    [][ /\ \A a \in Agents : ledger'[a] # ledger[a] =>
                /\ \E t \in Threads :
                        /\ pc[t] = "inserted" /\ pc'[t] = "done"
                        /\ call[t].op = "book_table" /\ call[t].agent = a
                /\ \A b \in Agents \ {a} : ledger'[b] = ledger[b]
        /\ \A t \in Threads : (ncalls' = ncalls + 1 /\ call'[t] # NoCall /\ pc'[t] # pc[t]) =>
                LET c == call'[t] IN
                /\ existing_bookings'[t] = CountConfirmed(ledger[c.agent], c.date, c.time)
                /\ c.op = "check_availability" =>
                        result'[t].kind =
                            AvailabilityAnswer(c.agent, ledger[c.agent], c.date, c.time,
                                               c.party_size) ]_vars

\* C34 witness: a booking made at Takoyaki Taro is in its store, and the
\* stores of Sushi Maru and Tokyo Ramen hold what their start-up left.
C34_Witness ==
    \E t \in Threads :
        /\ Returned(t)
        /\ call[t].op = "book_table"
        /\ call[t].agent = Takoyaki
        /\ result[t].kind = "confirmed"
        /\ \E i \in DOMAIN ledger[Takoyaki] : ledger[Takoyaki][i].id = booking_id[t]
        /\ ledger[Sushi] \in {AgentMain(Sushi, <<>>), AgentMain(Sushi, create_restaurant_db)}
        /\ ledger[Ramen] \in {AgentMain(Ramen, <<>>), AgentMain(Ramen, create_restaurant_db)}

\* C35: start-up is idempotent and keeps the capacity invariant: started
\* again on the store an earlier start-up left, an agent's database
\* initialisation adds no row, so a restart never takes a slot above the
\* number of bookings the agent seats.
C35_StartupIsIdempotent ==
    [][ \A a \in Agents : pc' = pc =>
            /\ ledger'[a] = ledger[a]
            /\ \A s \in AllSlots(ledger'[a]) :
                    SlotLoad(ledger[a], s[1], s[2]) <= Capacity(a) =>
                        SlotLoad(ledger'[a], s[1], s[2]) <= Capacity(a) ]_vars

\* thread t takes the step in which its book_table call returns a confirmation
Confirms(t) == result[t].kind # "confirmed" /\ result'[t].kind = "confirmed"

\* C38: a successful book_table call changes the ledger by exactly one row.
\* The step in which the confirmation is returned is the commit: it appends
\* to the called agent's store one confirmed row carrying the requested
\* date, time, party size and customer name under an id no other row has,
\* and keeps every existing row; no other step of the call writes a store.
C38_SuccessfulBookingInsertsOneRow ==
    [][ \A t \in Threads :
            /\ Confirms(t) =>
                    LET c == call[t]
                        rows == ledger[c.agent]
                        after == ledger'[c.agent]
                        new == after[Len(after)]
                    IN  /\ c.op = "book_table"
                        /\ Len(after) = Len(rows) + 1
                        /\ SubSeq(after, 1, Len(rows)) = rows
                        /\ new = Row(new.id, c.date, c.time, c.party_size,
                                     c.customer_name, "confirmed")
                        /\ \A i \in DOMAIN rows : rows[i].id # new.id
                        /\ \A b \in Agents \ {c.agent} : ledger'[b] = ledger[b]
            /\ (pc'[t] # pc[t] /\ ~Confirms(t)) => ledger' = ledger ]_vars

\* C38 witness: a booking at Tokyo Ramen, whose store held rows before, has
\* been confirmed and its row is the newest of the store.
C38_Witness ==
    \E t \in Threads :
        LET rows == ledger[Ramen] IN
        /\ Returned(t)
        /\ call[t].op = "book_table"
        /\ call[t].agent = Ramen
        /\ result[t].kind = "confirmed"
        /\ Len(rows) > 2
        /\ rows[Len(rows)] = Row(booking_id[t], call[t].date, call[t].time,
                                 call[t].party_size, call[t].customer_name, "confirmed")

\* the step is a whole check_availability call: a tool call is made and it
\* is not the SELECT of a book_table call
Checks ==
    /\ ncalls' = ncalls + 1
    /\ \A u \in Threads : pc'[u] = "counted" => pc[u] = "counted"
    /\ \E t \in Threads : pc'[t] = "done" /\ call'[t].op = "check_availability"

\* C39: check_availability is read-only: on every store and for all
\* arguments the call leaves every ledger and the write lock as they were,
\* and changes nothing that a book_table call running beside it has read or
\* will return.
C39_CheckAvailabilityIsReadOnly ==
    [][ Checks =>
            /\ ledger' = ledger
            /\ writer' = writer
            /\ \A u \in Threads : ~Free(u) =>
                    /\ call'[u] = call[u]
                    /\ pc'[u] = pc[u]
                    /\ existing_bookings'[u] = existing_bookings[u]
                    /\ booking_id'[u] = booking_id[u]
                    /\ result'[u] = result[u] ]_vars

\* C39 witness: a check of a slot has returned while a book_table call for
\* the same slot of the same agent is between its SELECT and its INSERT.
C39_Witness ==
    \E t, u \in Threads :
        /\ Returned(t)
        /\ call[t].op = "check_availability"
        /\ result[t].kind = "available"
        /\ pc[u] = "counted"
        /\ call[u].agent = call[t].agent
        /\ <<call[u].date, call[u].time>> = <<call[t].date, call[t].time>>
        /\ existing_bookings[u] = existing_bookings[t]


(***************************************************************************)
(* Part II - protocol bridges: content parts                               *)
(***************************************************************************)
\* a2a.types.Part: TextPart, FilePart(FileWithUri), FilePart(FileWithBytes),
\* DataPart; fields a variant does not have hold None
A2APart(kind, text, uri, bytes, mimeType) ==
    [kind |-> kind, text |-> text, uri |-> uri, bytes |-> bytes, mimeType |-> mimeType]
TextPart(text) == A2APart("text", text, None, None, None)
FileWithUri(uri, mimeType) == A2APart("file_uri", None, uri, None, mimeType)
FileWithBytes(bytes, mimeType) == A2APart("file_bytes", None, None, bytes, mimeType)
DataPart == A2APart("data", None, None, None, None)

\* google.genai.types.Part: text, file_data (FileData), inline_data (Blob);
\* data is the pair (present, decoded text) of a bytes value
GenaiPart(text, has_file_data, file_uri, file_mime, has_inline_data, data, inline_mime) ==
    [text |-> text, has_file_data |-> has_file_data, file_uri |-> file_uri,
     file_mime |-> file_mime, has_inline_data |-> has_inline_data, data |-> data,
     inline_mime |-> inline_mime]
GenaiText(text) == GenaiPart(text, FALSE, None, None, FALSE, None, None)
\* a part that carries a function call or a function response only
GenaiFunctionPart == GenaiPart(None, FALSE, None, None, FALSE, None, None)

\* what a converter call produces: the converted parts, or the ValueError it raises
Converted(parts) == [ok |-> TRUE, parts |-> parts]
ConversionError == [ok |-> FALSE, parts |-> <<>>]

\* Python truthiness of an optional string: None and "" are falsy
Truthy(x) == x # None /\ x # ""

\* a bytes value that is not the UTF-8 encoding of any text: decode("utf-8")
\* raises UnicodeDecodeError, a ValueError
NotUtf8 == "\\xff\\xd8"

\* convert_a2a_part_to_genai
convert_a2a_part_to_genai(part) ==
    CASE part.kind = "text" -> Converted(<<GenaiText(part.text)>>)
      [] part.kind = "file_uri" ->
            Converted(<<GenaiPart(None, TRUE, part.uri, part.mimeType, FALSE, None, None)>>)
      [] part.kind = "file_bytes" ->
            Converted(<<GenaiPart(None, FALSE, None, None, TRUE, part.bytes,
                                  IF Truthy(part.mimeType) THEN part.mimeType
                                  ELSE "application/octet-stream")>>)
      [] OTHER -> ConversionError

\* convert_a2a_parts_to_genai: the list comprehension raises on the first
\* part that does
RECURSIVE convert_a2a_parts_to_genai(_)
convert_a2a_parts_to_genai(parts) ==
    IF parts = <<>> THEN Converted(<<>>)
    ELSE LET head == convert_a2a_part_to_genai(Head(parts))
             rest == convert_a2a_parts_to_genai(Tail(parts))
         IN  IF ~head.ok \/ ~rest.ok THEN ConversionError
             ELSE Converted(head.parts \o rest.parts)

\* a variant of convert_genai_part_to_a2a that turns a part of unknown shape
\* into the text of its repr instead of raising
convert_genai_part_to_a2a_Stringifies(part) ==
    CASE Truthy(part.text) -> Converted(<<TextPart(part.text)>>)
      [] ~Truthy(part.text) /\ part.has_file_data ->
            IF ~Truthy(part.file_uri) THEN ConversionError
            ELSE Converted(<<FileWithUri(part.file_uri, part.file_mime)>>)
      [] ~Truthy(part.text) /\ ~part.has_file_data /\ part.has_inline_data ->
            IF ~Truthy(part.data) \/ part.data = NotUtf8 THEN ConversionError
            ELSE Converted(<<FileWithBytes(part.data, part.inline_mime)>>)
      [] OTHER -> Converted(<<TextPart("Part()")>>)

\* convert_genai_part_to_a2a
convert_genai_part_to_a2a(part) ==
    CASE Truthy(part.text) -> Converted(<<TextPart(part.text)>>)
      [] ~Truthy(part.text) /\ part.has_file_data ->
            IF ~Truthy(part.file_uri) THEN ConversionError
            ELSE Converted(<<FileWithUri(part.file_uri, part.file_mime)>>)
      [] ~Truthy(part.text) /\ ~part.has_file_data /\ part.has_inline_data ->
            IF ~Truthy(part.data) \/ part.data = NotUtf8 THEN ConversionError
            ELSE Converted(<<FileWithBytes(part.data, part.inline_mime)>>)
      [] OTHER -> ConversionError

\* a variant of convert_genai_parts_to_a2a that collects the converted parts
\* last to first
RECURSIVE convert_genai_parts_to_a2a_Reverses(_)
convert_genai_parts_to_a2a_Reverses(parts) ==
    IF parts = <<>> THEN Converted(<<>>)
    ELSE LET p == Head(parts)
             rest == convert_genai_parts_to_a2a_Reverses(Tail(parts))
         IN  IF ~(Truthy(p.text) \/ p.has_file_data \/ p.has_inline_data) THEN rest
             ELSE LET head == convert_genai_part_to_a2a(p) IN
                  IF ~head.ok \/ ~rest.ok THEN ConversionError
                  ELSE Converted(rest.parts \o head.parts)

\* convert_genai_parts_to_a2a: parts with neither text nor file payload are
\* filtered out before conversion
RECURSIVE convert_genai_parts_to_a2a(_)
convert_genai_parts_to_a2a(parts) ==
    IF parts = <<>> THEN Converted(<<>>)
    ELSE LET p == Head(parts)
             rest == convert_genai_parts_to_a2a(Tail(parts))
         IN  IF ~(Truthy(p.text) \/ p.has_file_data \/ p.has_inline_data) THEN rest
             ELSE LET head == convert_genai_part_to_a2a(p) IN
                  IF ~head.ok \/ ~rest.ok THEN ConversionError
                  ELSE Converted(head.parts \o rest.parts)

(***************************************************************************)
(* Part II - protocol bridges: requests, runtime events, task updates      *)
(***************************************************************************)
\* context.message.parts of the requests of the model
Messages == { Message(<<TextPart("Book a table")>>), Message(<<DataPart>>) }
ContextIds == {"ctx-1"}

\* google.adk Event, as _process_request reads it: is_final_response(),
\* get_function_calls(), content.parts
ADKEvent(final, function_calls, parts) ==
    [final |-> final, function_calls |-> function_calls, parts |-> parts]
ADKEvents ==
    { ADKEvent(TRUE, FALSE, <<GenaiText("Booking confirmed")>>),
      ADKEvent(TRUE, FALSE, <<GenaiPart(None, TRUE, None, "image/png", FALSE, None, None)>>),
      ADKEvent(FALSE, FALSE, <<GenaiText("Looking at the calendar")>>),
      ADKEvent(FALSE, FALSE, <<GenaiFunctionPart>>),
      ADKEvent(FALSE, TRUE, <<GenaiFunctionPart>>) }

\* the messages graph.stream(..., stream_mode="values") ends its items with
GraphMessages == {"ai_tool_calls", "tool_message", "other"}
\* ResponseFormat.status of the structured response, or none at all
StructuredResponses == {"input_required", "error", "completed", "none"}

\* TaskStatusUpdateEvent / TaskArtifactUpdateEvent put on the event queue
StatusUpdate(state, final, parts) ==
    [type |-> "status", state |-> state, final |-> final, parts |-> parts, name |-> ""]
ArtifactUpdate(parts, name) ==
    [type |-> "artifact", state |-> "", final |-> FALSE, parts |-> parts, name |-> name]

\* the task store applies an update to the task it names
ApplyUpdate(task, u) ==
    IF u.type = "status" THEN [task EXCEPT !.state = u.state]
    ELSE [task EXCEPT !.artifacts = Append(@, [name |-> u.name, parts |-> u.parts])]

RECURSIVE ApplyUpdates(_, _)
ApplyUpdates(task, updates) ==
    IF updates = <<>> THEN task
    ELSE ApplyUpdates(ApplyUpdate(task, Head(updates)), Tail(updates))

\* a variant of Enqueue in which the executor keeps one updater for all its
\* requests: an update reaches every task that has a request in flight
Enqueue_SharedUpdater(e, updates) ==
    /\ queue' = [queue EXCEPT ![e] = @ \o updates]
    /\ tasks' = [k \in TaskIds |->
            IF \E f \in Execs : exec[f].pc \notin {"idle", "done"} /\ exec[f].task_id = k
            THEN ApplyUpdates(tasks[k], updates) ELSE tasks[k]]

\* TaskUpdater of request e puts the updates on e's event queue, and the task
\* store follows them
Enqueue(e, updates) ==
    /\ queue' = [queue EXCEPT ![e] = @ \o updates]
    /\ tasks' = [tasks EXCEPT ![exec[e].task_id] = ApplyUpdates(@, updates)]

Idle(e) == exec[e].pc \in {"idle", "done"}

\* the request handler runs one execution per task at a time
InFlight(k) == \E e \in Execs : ~Idle(e) /\ exec[e].task_id = k

\* the slot of a request that has been answered: execute has returned or
\* raised; the request's context is gone, what is kept is how it ended
Answered(op, k, caught, outcome) ==
    [op |-> op, task_id |-> k, context_id |-> None, message |-> NoMessage,
     current_task |-> FALSE, pc |-> "done", streamed |-> 0, event |-> "none",
     caught |-> caught, outcome |-> outcome]

Finish(e, caught, outcome) ==
    exec' = [exec EXCEPT ![e] = Answered(exec[e].op, exec[e].task_id, caught, outcome)]

(***************************************************************************)
(* execute(context, event_queue): the part both executors share            *)
(***************************************************************************)
\* variant: the task is submitted before the request is validated
execute_validate_SubmitsFirst(e, k, ctx, msg) ==
    /\ Idle(e)
    /\ nrequests < MaxRequests
    /\ nrequests' = nrequests + 1
    /\ k # None => ~InFlight(k)
    /\ LET current == k # None /\ tasks[k].state # "unknown"
           invalid == k = None \/ ctx = None \/ ~msg.present
           early == IF k # None /\ invalid
                    THEN <<StatusUpdate("submitted", FALSE, <<>>)>> ELSE <<>>
       IN  /\ exec' = [exec EXCEPT ![e] =
                IF invalid THEN Answered("execute", k, FALSE, "ValueError")
                ELSE [op |-> "execute", task_id |-> k, context_id |-> ctx,
                      message |-> msg, current_task |-> current, pc |-> "validated",
                      streamed |-> 0, event |-> "none", caught |-> FALSE,
                      outcome |-> "none"]]
           /\ queue' = [queue EXCEPT ![e] = early]
           /\ tasks' = IF early = <<>> THEN tasks
                       ELSE [tasks EXCEPT ![k] = ApplyUpdates(@, early)]
    /\ UNCHANGED server
    /\ UNCHANGED <<ledgerVars, coordVars, convVars>>

\* the request arrives with a fresh event queue and is validated: task_id,
\* context_id, message
execute_validate(e, k, ctx, msg) ==
    /\ Idle(e)
    /\ nrequests < MaxRequests
    /\ nrequests' = nrequests + 1
    /\ k # None => ~InFlight(k)
    /\ LET current == k # None /\ tasks[k].state # "unknown"
           invalid == k = None \/ ctx = None \/ ~msg.present
       IN  exec' = [exec EXCEPT ![e] =
                IF invalid THEN Answered("execute", k, FALSE, "ValueError")
                ELSE [op |-> "execute", task_id |-> k, context_id |-> ctx,
                      message |-> msg, current_task |-> current, pc |-> "validated",
                      streamed |-> 0, event |-> "none", caught |-> FALSE,
                      outcome |-> "none"]]
    /\ queue' = [queue EXCEPT ![e] = <<>>]
    /\ UNCHANGED <<server, tasks>>
    /\ UNCHANGED <<ledgerVars, coordVars, convVars>>

\* variant: submit() whether or not the request has a task
execute_submit_Always(e) ==
    /\ exec[e].pc = "validated"
    /\ Enqueue(e, <<StatusUpdate("submitted", FALSE, <<>>)>>)
    /\ exec' = [exec EXCEPT ![e].pc = "submitted"]
    /\ UNCHANGED <<server, nrequests>>
    /\ UNCHANGED <<ledgerVars, coordVars, convVars>>

\* if not context.current_task: updater.submit()
execute_submit(e) ==
    /\ exec[e].pc = "validated"
    /\ ~exec[e].current_task
    /\ Enqueue(e, <<StatusUpdate("submitted", FALSE, <<>>)>>)
    /\ exec' = [exec EXCEPT ![e].pc = "submitted"]
    /\ UNCHANGED <<server, nrequests>>
    /\ UNCHANGED <<ledgerVars, coordVars, convVars>>

\* variant: the runtime is reached without the Working status
execute_start_work_Silent(e) ==
    /\ \/ exec[e].pc = "submitted"
       \/ exec[e].pc = "validated" /\ exec[e].current_task
    /\ exec' = [exec EXCEPT ![e].pc = "working"]
    /\ UNCHANGED <<server, tasks, queue, nrequests>>
    /\ UNCHANGED <<ledgerVars, coordVars, convVars>>

\* updater.start_work(), whatever state the task is in
execute_start_work(e) ==
    /\ \/ exec[e].pc = "submitted"
       \/ exec[e].pc = "validated" /\ exec[e].current_task
    /\ Enqueue(e, <<StatusUpdate("working", FALSE, <<>>)>>)
    /\ exec' = [exec EXCEPT ![e].pc = "working"]
    /\ UNCHANGED <<server, nrequests>>
    /\ UNCHANGED <<ledgerVars, coordVars, convVars>>

(***************************************************************************)
(* TakoyakiTaroAgentExecutor: the try block and its except clause          *)
(***************************************************************************)
\* except Exception: updater.fail("Agent execution error: ...")
takoyaki_except(e) ==
    /\ Enqueue(e, <<StatusUpdate("failed", TRUE, <<TextPart("Agent execution error")>>)>>)
    /\ Finish(e, TRUE, "returned")

\* adk_content = UserContent(parts=convert_a2a_parts_to_genai(message.parts))
takoyaki_convert_message(e) ==
    /\ server = TakoyakiBridge
    /\ exec[e].pc = "working"
    /\ IF ~convert_a2a_parts_to_genai(exec[e].message.parts).ok
       THEN takoyaki_except(e)
       ELSE /\ exec' = [exec EXCEPT ![e].pc = "streaming"]
            /\ UNCHANGED <<tasks, queue>>
    /\ UNCHANGED <<server, nrequests>>
    /\ UNCHANGED <<ledgerVars, coordVars, convVars>>

\* an event of the runtime's tool use: it asks for function calls, or its
\* parts carry a function call or a function response only
IsToolEvent(ev) ==
    \/ ev.function_calls
    \/ ev.parts # <<>> /\ \A i \in DOMAIN ev.parts : ev.parts[i] = GenaiFunctionPart
EventKind(ev) == IF IsToolEvent(ev) THEN "tool" ELSE "content"

\* variant: the final response completes the task before the artifact is added
takoyaki_event_CompletesFirst(e, ev) ==
    /\ server = TakoyakiBridge
    /\ exec[e].pc = "streaming"
    /\ exec[e].streamed < MaxStream
    /\ LET conv == convert_genai_parts_to_a2a(ev.parts)
           parts == conv.parts
       IN
       IF ev.final
       THEN IF ~conv.ok
            THEN takoyaki_except(e)
            ELSE \* add_artifact(parts); complete(); break
                 /\ Enqueue(e, <<StatusUpdate("completed", TRUE, <<>>), ArtifactUpdate(parts, "")>>)
                 /\ Finish(e, FALSE, "returned")
       ELSE IF ~ev.function_calls
            THEN IF ~conv.ok
                 THEN takoyaki_except(e)
                 ELSE \* update_status(working, message=new_agent_message(parts))
                      /\ Enqueue(e, <<StatusUpdate("working", FALSE, parts)>>)
                      /\ exec' = [exec EXCEPT ![e].streamed = @ + 1,
                                              ![e].event = EventKind(ev)]
            ELSE \* function call event: skipped
                 /\ exec' = [exec EXCEPT ![e].streamed = @ + 1,
                                         ![e].event = EventKind(ev)]
                 /\ UNCHANGED <<tasks, queue>>
    /\ UNCHANGED <<server, nrequests>>
    /\ UNCHANGED <<ledgerVars, coordVars, convVars>>

\* variant: the intermediate status update carries no message
takoyaki_event_DropsMessage(e, ev) ==
    /\ server = TakoyakiBridge
    /\ exec[e].pc = "streaming"
    /\ exec[e].streamed < MaxStream
    /\ LET conv == convert_genai_parts_to_a2a(ev.parts)
           parts == conv.parts
       IN
       IF ev.final
       THEN IF ~conv.ok
            THEN takoyaki_except(e)
            ELSE \* add_artifact(parts); complete(); break
                 /\ Enqueue(e, <<ArtifactUpdate(parts, ""), StatusUpdate("completed", TRUE, <<>>)>>)
                 /\ Finish(e, FALSE, "returned")
       ELSE IF ~ev.function_calls
            THEN IF ~conv.ok
                 THEN takoyaki_except(e)
                 ELSE \* update_status(working, message=new_agent_message(parts))
                      /\ Enqueue(e, <<StatusUpdate("working", FALSE, <<>>)>>)
                      /\ exec' = [exec EXCEPT ![e].streamed = @ + 1,
                                              ![e].event = EventKind(ev)]
            ELSE \* function call event: skipped
                 /\ exec' = [exec EXCEPT ![e].streamed = @ + 1,
                                         ![e].event = EventKind(ev)]
                 /\ UNCHANGED <<tasks, queue>>
    /\ UNCHANGED <<server, nrequests>>
    /\ UNCHANGED <<ledgerVars, coordVars, convVars>>

\* one turn of "async for event in self._run_agent(...)"
takoyaki_event(e, ev) ==
    /\ server = TakoyakiBridge
    /\ exec[e].pc = "streaming"
    /\ exec[e].streamed < MaxStream
    /\ LET conv == convert_genai_parts_to_a2a(ev.parts)
           parts == conv.parts
       IN
       IF ev.final
       THEN IF ~conv.ok
            THEN takoyaki_except(e)
            ELSE \* add_artifact(parts); complete(); break
                 /\ Enqueue(e, <<ArtifactUpdate(parts, ""), StatusUpdate("completed", TRUE, <<>>)>>)
                 /\ Finish(e, FALSE, "returned")
       ELSE IF ~ev.function_calls
            THEN IF ~conv.ok
                 THEN takoyaki_except(e)
                 ELSE \* update_status(working, message=new_agent_message(parts))
                      /\ Enqueue(e, <<StatusUpdate("working", FALSE, parts)>>)
                      /\ exec' = [exec EXCEPT ![e].streamed = @ + 1,
                                              ![e].event = EventKind(ev)]
            ELSE \* function call event: skipped
                 /\ exec' = [exec EXCEPT ![e].streamed = @ + 1,
                                         ![e].event = EventKind(ev)]
                 /\ UNCHANGED <<tasks, queue>>
    /\ UNCHANGED <<server, nrequests>>
    /\ UNCHANGED <<ledgerVars, coordVars, convVars>>

\* the runtime's stream ends without a final response: _process_request and
\* execute return
takoyaki_stream_end(e) ==
    /\ server = TakoyakiBridge
    /\ exec[e].pc = "streaming"
    /\ Finish(e, FALSE, "returned")
    /\ UNCHANGED <<server, tasks, queue, nrequests>>
    /\ UNCHANGED <<ledgerVars, coordVars, convVars>>

\* _upsert_session or runner.run_async raises
takoyaki_runtime_raises(e) ==
    /\ server = TakoyakiBridge
    /\ exec[e].pc = "streaming"
    /\ takoyaki_except(e)
    /\ UNCHANGED <<server, nrequests>>
    /\ UNCHANGED <<ledgerVars, coordVars, convVars>>

(***************************************************************************)
(* TokyoRamenAgentExecutor with TokyoRamenAgent.stream                     *)
(***************************************************************************)
\* query = context.get_user_input()
ramen_get_user_input(e) ==
    /\ server = RamenBridge
    /\ exec[e].pc = "working"
    /\ exec' = [exec EXCEPT ![e].pc = "streaming"]
    /\ UNCHANGED <<server, tasks, queue, nrequests>>
    /\ UNCHANGED <<ledgerVars, coordVars, convVars>>

\* one item of graph.stream: TokyoRamenAgent.stream yields a working item for
\* an AI message with tool calls and for a tool message, nothing otherwise (the
\* executor's loop then sees no event); the executor turns a working item into
\* a working status update
ramen_stream_item(e, m) ==
    /\ server = RamenBridge
    /\ exec[e].pc = "streaming"
    /\ exec[e].streamed < MaxStream
    /\ exec' = [exec EXCEPT ![e].streamed = @ + 1,
                            ![e].event = IF m \in {"ai_tool_calls", "tool_message"}
                                         THEN "tool" ELSE "none"]
    /\ CASE m = "ai_tool_calls" ->
                Enqueue(e, <<StatusUpdate("working", FALSE,
                    <<TextPart("Checking availability and processing your request...")>>)>>)
         [] m = "tool_message" ->
                Enqueue(e, <<StatusUpdate("working", FALSE,
                    <<TextPart("Processing booking information...")>>)>>)
         [] OTHER -> UNCHANGED <<tasks, queue>>
    /\ UNCHANGED <<server, nrequests>>
    /\ UNCHANGED <<ledgerVars, coordVars, convVars>>

\* get_agent_response: the flags of the last item; input_required, error and
\* the fallback all ask for user input
IsTaskComplete(sr) == sr = "completed"
RequireUserInput(sr) == sr # "completed"

\* a variant of ramen_final_item in which a failure raised after complete()
\* reaches the except clause, which reports it on the finished task
ramen_final_item_ReportsLateFailure(e, sr) ==
    /\ server = RamenBridge
    /\ exec[e].pc = "streaming"
    /\ LET parts == <<TextPart(IF sr = "none"
                               THEN "I'm sorry, I couldn't process your request properly."
                               ELSE "structured_response.message")>> IN
       IF RequireUserInput(sr)
       THEN Enqueue(e, <<StatusUpdate("input-required", FALSE, parts)>>)
       ELSE Enqueue(e, <<ArtifactUpdate(parts, "booking_result"),
                         StatusUpdate("completed", TRUE, <<>>),
                         ArtifactUpdate(<<TextPart("Error processing request")>>,
                                        "error_response"),
                         StatusUpdate("completed", TRUE, <<>>)>>)
    /\ Finish(e, TRUE, "returned")
    /\ UNCHANGED <<server, nrequests>>
    /\ UNCHANGED <<ledgerVars, coordVars, convVars>>

\* the graph has finished: stream yields get_agent_response(config) and the
\* executor ends the loop on it
ramen_final_item(e, sr) ==
    /\ server = RamenBridge
    /\ exec[e].pc = "streaming"
    /\ LET parts == <<TextPart(IF sr = "none"
                               THEN "I'm sorry, I couldn't process your request properly."
                               ELSE "structured_response.message")>> IN
       IF ~IsTaskComplete(sr) /\ ~RequireUserInput(sr)
       THEN Enqueue(e, <<StatusUpdate("working", FALSE, parts)>>)
       ELSE IF RequireUserInput(sr)
            THEN Enqueue(e, <<StatusUpdate("input-required", FALSE, parts)>>)
            ELSE Enqueue(e, <<ArtifactUpdate(parts, "booking_result"),
                              StatusUpdate("completed", TRUE, <<>>)>>)
    /\ Finish(e, FALSE, "returned")
    /\ UNCHANGED <<server, nrequests>>
    /\ UNCHANGED <<ledgerVars, coordVars, convVars>>

\* graph.stream or get_state raises: except Exception adds the error artifact
\* and completes the task
ramen_runtime_raises(e) ==
    /\ server = RamenBridge
    /\ exec[e].pc = "streaming"
    /\ Enqueue(e, <<ArtifactUpdate(<<TextPart("Error processing request")>>, "error_response"),
                    StatusUpdate("completed", TRUE, <<>>)>>)
    /\ Finish(e, TRUE, "returned")
    /\ UNCHANGED <<server, nrequests>>
    /\ UNCHANGED <<ledgerVars, coordVars, convVars>>

(***************************************************************************)
(* cancel(context, event_queue), the same in both executors                *)
(***************************************************************************)
\* variant: cancel marks the task canceled before raising
cancel_EmitsCanceled(e, k) ==
    /\ Idle(e)
    /\ nrequests < MaxRequests
    /\ nrequests' = nrequests + 1
    /\ exec' = [exec EXCEPT ![e] = Answered("cancel", k, FALSE, "UnsupportedOperationError")]
    /\ queue' = [queue EXCEPT ![e] = <<StatusUpdate("canceled", TRUE, <<>>)>>]
    /\ tasks' = [tasks EXCEPT ![k].state = "canceled"]
    /\ UNCHANGED server
    /\ UNCHANGED <<ledgerVars, coordVars, convVars>>

\* the request arrives with a fresh event queue;
\* raise ServerError(error=UnsupportedOperationError(...))
cancel(e, k) ==
    /\ Idle(e)
    /\ nrequests < MaxRequests
    /\ nrequests' = nrequests + 1
    /\ exec' = [exec EXCEPT ![e] = Answered("cancel", k, FALSE, "UnsupportedOperationError")]
    /\ queue' = [queue EXCEPT ![e] = <<>>]
    /\ UNCHANGED <<server, tasks>>
    /\ UNCHANGED <<ledgerVars, coordVars, convVars>>

(***************************************************************************)
(* Specification of the bridges                                            *)
(***************************************************************************)
\* an agent process runs one executor; the two servers share no state
BridgeInit ==
    /\ ledger = [a \in Agents |-> AgentMain(a, <<>>)]
    /\ ThreadsInit
    /\ server \in Bridges
    /\ endpoint = [n \in Agents |-> "up"]
    /\ ConverterIdle

BridgeNext ==
    \E e \in Execs :
        \/ \E k \in TaskIds \cup {None}, ctx \in ContextIds \cup {None},
              msg \in Messages \cup {NoMessage} :
                execute_validate(e, k, ctx, msg)
        \/ execute_submit(e)
        \/ execute_start_work(e)
        \/ takoyaki_convert_message(e)
        \/ \E ev \in ADKEvents : takoyaki_event(e, ev)
        \/ takoyaki_stream_end(e)
        \/ takoyaki_runtime_raises(e)
        \/ ramen_get_user_input(e)
        \/ \E m \in GraphMessages : ramen_stream_item(e, m)
        \/ \E sr \in StructuredResponses : ramen_final_item(e, sr)
        \/ ramen_runtime_raises(e)
        \/ \E k \in TaskIds : cancel(e, k)

BridgeSpec == BridgeInit /\ [][BridgeNext]_vars

(***************************************************************************)
(* Properties of the task lifecycle                                        *)
(***************************************************************************)
\* the state the task store holds for task id k
TaskState(k) == tasks[k].state

\* the task state machine: a task is created Submitted, goes on to Working,
\* and from Working to InputRequired, Completed or Failed; an inbound message
\* takes an InputRequired task back to Working
Forward ==
    { <<"unknown", "submitted">>, <<"submitted", "working">>,
      <<"working", "input-required">>, <<"working", "completed">>,
      <<"working", "failed">>, <<"input-required", "working">> }

\* C6: over any sequence of execute calls for one task, the task's state only
\* moves along Submitted -> Working -> {InputRequired, Completed, Failed}, the
\* one backward move being InputRequired -> Working.
C6_StateOnlyMovesForward ==
    [][\A k \in TaskIds :
          \/ TaskState(k)' = TaskState(k)
          \/ <<TaskState(k), TaskState(k)'>> \in Forward]_vars

\* C7: from Working, the next state of a task is Working, InputRequired or
\* Completed, whatever the wrapped runtime produces or raises.
C7_WorkingLeadsToInputRequiredOrCompleted ==
    [][\A k \in TaskIds :
          TaskState(k) = "working"
              => TaskState(k)' \in {"working", "input-required", "completed"}]_vars

\* C8: Completed and Failed are terminal: no later execute call for the task
\* changes its state, the unconditional start_work included.
C8_CompletedAndFailedAreTerminal ==
    [][\A k \in TaskIds :
          TaskState(k) \in {"completed", "failed"} => TaskState(k)' = TaskState(k)]_vars

\* execute of request e ends in this step by handling an exception of the
\* conversion or of the wrapped runtime
EndsByCapture(e) ==
    /\ exec[e].pc \in {"working", "streaming"}
    /\ exec'[e].pc = "done"
    /\ exec'[e].caught

\* C9: in every bridge, a failure raised after the task has entered Working is
\* captured: execute returns, an error artifact is attached to the task, and
\* the task ends Completed, never Failed.
C9_FailureEndsCompletedWithErrorArtifact ==
    [][\A e \in Execs :
          EndsByCapture(e) =>
              /\ exec'[e].outcome = "returned"
              /\ TaskState(exec[e].task_id)' = "completed"
              /\ \E i \in DOMAIN queue'[e] : queue'[e][i].type = "artifact"
              /\ Len(tasks'[exec[e].task_id].artifacts)
                     = Len(tasks[exec[e].task_id].artifacts) + 1]_vars

\* this step answers a cancel request in slot e
CancelStep(e) ==
    /\ nrequests' # nrequests
    /\ exec'[e].op = "cancel"
    /\ \A f \in Execs \ {e} : exec'[f] = exec[f]

\* C10: a cancel request is rejected with UnsupportedOperationError whatever
\* the state of the task, puts no event on any queue, and leaves the state and
\* the artifacts of every task as they were.
C10_CancelRejectedWithoutEffect ==
    [][\A e \in Execs :
          CancelStep(e) =>
              /\ exec'[e].outcome = "UnsupportedOperationError"
              /\ queue'[e] = <<>>
              /\ \A f \in Execs \ {e} : queue'[f] = queue[f]
              /\ tasks' = tasks]_vars

\* a cancel was rejected for a task that an execute call is working on, the
\* task still Working with its events on the queue of that call
C10_Witness ==
    \E e, f \in Execs :
        /\ exec[e].op = "cancel"
        /\ exec[e].pc = "done"
        /\ exec[e].outcome = "UnsupportedOperationError"
        /\ queue[e] = <<>>
        /\ exec[f].op = "execute"
        /\ exec[f].pc = "streaming"
        /\ exec[f].task_id = exec[e].task_id
        /\ TaskState(exec[e].task_id) = "working"
        /\ queue[f] # <<>>

\* this step answers an execute request in slot e with the validation error
RejectStep(e) ==
    /\ nrequests' # nrequests
    /\ exec'[e].op = "execute"
    /\ exec'[e].outcome = "ValueError"
    /\ \A f \in Execs \ {e} : exec'[f] = exec[f]

\* C11: an execute request without task id, context id or message is rejected
\* with the validation error before any status event and before the runtime:
\* only complete requests go on, and a rejection leaves every task and the
\* queue of every other request as they were.
C11_InvalidRequestRejectedWithoutEffect ==
    [][\A e \in Execs :
          /\ (exec'[e].pc = "validated" /\ exec[e].pc # "validated")
                 => /\ exec'[e].task_id # None
                    /\ exec'[e].context_id # None
                    /\ exec'[e].message.present
          /\ RejectStep(e)
                 => /\ exec'[e].pc = "done"
                    /\ ~exec'[e].caught
                    /\ queue'[e] = <<>>
                    /\ \A f \in Execs \ {e} : queue'[f] = queue[f]
                    /\ tasks' = tasks]_vars

\* a request for a task id nobody has seen was rejected while another request
\* is being streamed: the task of the rejected one does not exist, the other
\* is Working with its events queued
C11_Witness ==
    \E e, f \in Execs :
        /\ exec[e].op = "execute"
        /\ exec[e].outcome = "ValueError"
        /\ exec[e].task_id # None
        /\ TaskState(exec[e].task_id) = "unknown"
        /\ queue[e] = <<>>
        /\ exec[f].pc = "streaming"
        /\ TaskState(exec[f].task_id) = "working"
        /\ queue[f] # <<>>

\* the loop of request e consumes a runtime event of the given kind in this
\* step and goes on
Consumes(e, kind) ==
    /\ exec[e].pc = "streaming"
    /\ exec'[e].pc = "streaming"
    /\ exec'[e].streamed = exec[e].streamed + 1
    /\ exec'[e].event = kind

\* C12: in every bridge, processing an event of a tool call or of a tool's
\* result emits no task status update and no artifact.
C12_ToolEventsSuppressed ==
    [][\A e \in Execs :
          Consumes(e, "tool") => queue'[e] = queue[e] /\ tasks' = tasks]_vars

\* what an artifact of a final response may carry: the converted parts of a
\* final event of the ADK runner, or the text of the structured response
FinalContents ==
    { convert_genai_parts_to_a2a(ev.parts).parts :
          ev \in { x \in ADKEvents : x.final /\ convert_genai_parts_to_a2a(x.parts).ok } }
    \cup { <<TextPart("structured_response.message")>> }

\* the Completed status on the queue of request e at position i follows the
\* artifact and closes the queue of an execution that has ended
CompletedClosesQueue(q, i, x) ==
    /\ i = Len(q)
    /\ i > 1
    /\ q[i - 1].type = "artifact"
    /\ x.pc = "done"
    /\ ~x.caught => q[i - 1].parts \in FinalContents

C14_InputRequiredStopsAndReentersAtWorking ==
    [][\A e \in Execs :
          /\ \A i \in DOMAIN queue'[e] :
                 queue'[e][i].state = "input-required"
                     => /\ i = Len(queue'[e])
                        /\ queue'[e][i].parts # <<>>
                        /\ exec'[e].pc = "done"
                        /\ exec'[e].outcome = "returned"
          /\ ( /\ exec[e].pc = "validated"
               /\ exec'[e] # exec[e]
               /\ TaskState(exec[e].task_id) = "input-required" )
                 => /\ exec'[e].pc = "working"
                    /\ queue'[e] = <<StatusUpdate("working", FALSE, <<>>)>>
                    /\ TaskState(exec[e].task_id)' = "working"]_vars

\* a first execution ended asking for input; the next request for the task is
\* being processed and its queue starts with Working
C14_Witness ==
    \E e, f \in Execs :
        /\ e # f
        /\ exec[f].pc = "done"
        /\ queue[f] # <<>>
        /\ queue[f][Len(queue[f])].state = "input-required"
        /\ exec[e].task_id = exec[f].task_id
        /\ exec[e].current_task
        /\ exec[e].pc = "streaming"
        /\ queue[e] = <<StatusUpdate("working", FALSE, <<>>)>>
        /\ TaskState(exec[e].task_id) = "working"

Submitted == StatusUpdate("submitted", FALSE, <<>>)
Working == StatusUpdate("working", FALSE, <<>>)

\* how the queue of a request that has passed start_work begins: Submitted
\* then Working for a request without a task, Working alone otherwise, and no
\* other Submitted
BeginsLifecycle(q, x) ==
    /\ IF x.current_task
       THEN Len(q) >= 1 /\ q[1] = Working
       ELSE Len(q) >= 2 /\ q[1] = Submitted /\ q[2] = Working
    /\ \A i \in DOMAIN q : q[i].state = "submitted" => i = 1 /\ ~x.current_task

\* C15: a request with no task emits Submitted first and then Working, Working
\* before the runtime is invoked; Submitted is emitted iff the request has no
\* task, and every validated request goes on to Working unconditionally.
C15_SubmittedThenWorkingBeforeRuntime ==
    [][\A e \in Execs :
          /\ exec'[e].pc = "validated"
                 => /\ queue'[e] = <<>>
                    /\ exec'[e].current_task = (tasks'[exec'[e].task_id].state # "unknown")
          /\ exec'[e].pc = "submitted"
                 => queue'[e] = <<Submitted>> /\ ~exec'[e].current_task
          /\ exec'[e].pc \in {"working", "streaming"}
                 => BeginsLifecycle(queue'[e], exec'[e])
          /\ exec'[e].pc = "working" => exec'[e].streamed = 0 /\ exec'[e].event = "none"
          /\ (exec[e].pc = "validated" /\ exec'[e] # exec[e])
                 => exec'[e].pc = IF exec[e].current_task THEN "working" ELSE "submitted"
          /\ (exec[e].pc = "submitted" /\ exec'[e] # exec[e])
                 => exec'[e].pc = "working"]_vars

\* the first request for a task began Submitted, Working and has ended; the
\* next one for the same task began with Working and is consuming the
\* runtime's events
C15_Witness ==
    \E e, f \in Execs :
        /\ exec[f].pc = "done"
        /\ Len(queue[f]) >= 2
        /\ queue[f][1] = Submitted
        /\ queue[f][2] = Working
        /\ exec[e].task_id = exec[f].task_id
        /\ exec[e].pc = "streaming"
        /\ exec[e].current_task
        /\ exec[e].streamed > 0
        /\ queue[e][1] = Working

\* what an intermediate status update may carry: the converted parts of an
\* intermediate event of the ADK runner that is no tool event
IntermediateContents ==
    { convert_genai_parts_to_a2a(ev.parts).parts :
          ev \in { x \in ADKEvents : /\ ~x.final
                                     /\ ~IsToolEvent(x)
                                     /\ convert_genai_parts_to_a2a(x.parts).ok } }

\* the contents of the working items TokyoRamenAgent.stream yields
WorkingItemContents ==
    { <<TextPart("Checking availability and processing your request...")>>,
      <<TextPart("Processing booking information...")>> }

\* the step puts exactly one update on the queue of request e: a Working status
\* with one of the given messages
AddsOneWorking(e, contents) ==
    /\ Len(queue'[e]) = Len(queue[e]) + 1
    /\ SubSeq(queue'[e], 1, Len(queue[e])) = queue[e]
    /\ queue'[e][Len(queue'[e])].type = "status"
    /\ queue'[e][Len(queue'[e])].state = "working"
    /\ queue'[e][Len(queue'[e])].parts \in contents
    /\ TaskState(exec[e].task_id)' = "working"

Stepped(e) == exec'[e] # exec[e] \/ queue'[e] # queue[e]

\* the moves of a task's state that executions of that task alone produce:
\* the lifecycle, and the start_work of a later request for a finished task
AloneTransitions == Forward \cup {<<"completed", "working">>, <<"failed", "working">>}

\* C32: tasks are independent. With executions of different tasks
\* interleaved on one bridge, a step of one execution (a failure included)
\* changes no other request, no other event queue and no task but its own;
\* a task changes only by a step of an execution naming it, and every move
\* of its state is one that executions of that task alone produce.
C32_TasksAreIndependent ==
    [][ /\ \A e \in Execs : Stepped(e) =>
                /\ \A f \in Execs \ {e} : exec'[f] = exec[f] /\ queue'[f] = queue[f]
                /\ \A k \in TaskIds : tasks'[k] # tasks[k] => k = exec'[e].task_id
        /\ \A k \in TaskIds : tasks'[k] # tasks[k] =>
                /\ \E e \in Execs : Stepped(e) /\ exec[e].task_id = k
                /\ \/ TaskState(k)' = TaskState(k)
                   \/ <<TaskState(k), TaskState(k)'>> \in AloneTransitions ]_vars

\* C32 witness: on the Takoyaki Taro bridge the execution of one task has
\* ended in a captured failure while the execution of another task, begun
\* and not yet ended, has its task in Working with nothing but its own
\* updates on its queue.
C32_Witness ==
    \E e, f \in Execs :
        /\ e # f
        /\ exec[e].pc = "done" /\ exec[e].op = "execute" /\ exec[e].caught
        /\ TaskState(exec[e].task_id) = "failed"
        /\ exec[f].pc = "streaming"
        /\ exec[f].task_id # exec[e].task_id
        /\ TaskState(exec[f].task_id) = "working"
        /\ tasks[exec[f].task_id].artifacts = <<>>
        /\ Len(queue[f]) = 2

\* the states an execution leaves its task in: InputRequired, Completed, Failed
Stopping == {"input-required", "completed", "failed"}

\* execute was called with a valid request and has returned
Executed(e) ==
    exec[e].pc = "done" /\ exec[e].op = "execute" /\ exec[e].outcome = "returned"

\* C36: once a validated execute call has returned (the runtime's stream has
\* ended, with or without a final response, or has raised) and no later
\* request for the task is running, the task is in InputRequired, Completed
\* or Failed, not in Working.
C36_ExecuteLeavesTaskStopped ==
    \A e \in Execs :
        (Executed(e) /\ ~InFlight(exec[e].task_id)) =>
            TaskState(exec[e].task_id) \in Stopping

\* the positions of the event queue of request e that hold a stopping status
StoppingUpdates(e) ==
    {i \in DOMAIN queue[e] : queue[e][i].type = "status" /\ queue[e][i].state \in Stopping}

\* C37: an execute call emits at most one status of InputRequired, Completed
\* or Failed, and that status is the last thing it emits: no status update
\* and no artifact follows it, also when the call ends in a captured failure.
C37_OneStoppingStatusAndNothingAfter ==
    \A e \in Execs :
        /\ Cardinality(StoppingUpdates(e)) <= 1
        /\ \A i \in StoppingUpdates(e) : i = Len(queue[e])

\* C37 witness: on the Takoyaki Taro bridge the final response could not be
\* converted; the call emitted Submitted, Working and one Failed, and returned.
C37_Witness ==
    \E e \in Execs :
        /\ server = TakoyakiBridge
        /\ Executed(e)
        /\ exec[e].caught
        /\ Len(queue[e]) = 3
        /\ StoppingUpdates(e) = {3}
        /\ queue[e][3].state = "failed"

(***************************************************************************)
(* Part III - coordinator: discovery and the availability fan-out          *)
(***************************************************************************)
\* an agent process starts, stops, or starts serving a broken card
endpoint_changes(n, st) ==
    /\ nflips < MaxFlips
    /\ st # endpoint[n]
    /\ endpoint' = [endpoint EXCEPT ![n] = st]
    /\ nflips' = nflips + 1
    /\ UNCHANGED <<cop, cpc, idx, available, results, outstanding, sent, ret, began,
                   last, nops>>
    /\ UNCHANGED target
    /\ UNCHANGED <<ledgerVars, bridgeVars, convVars>>

\* variant: available_restaurants is kept from one call to the next
Call_KeepsAvailable(o, name) ==
    /\ nops' = nops + 1
    /\ cop' = o
    /\ target' = name
    /\ cpc' = "discovering"
    /\ idx' = 1
    /\ available' = available
    /\ results' = <<>>
    /\ outstanding' = {}
    /\ sent' = <<>>
    /\ ret' = NoReturn
    /\ began' = nflips
    /\ UNCHANGED <<endpoint, nflips, last>>
    /\ UNCHANGED <<ledgerVars, bridgeVars, convVars>>

\* an operation is called; each of them begins with discover_restaurants(),
\* which starts from an empty available_restaurants
Call(o, name) ==
    /\ nops' = nops + 1
    /\ cop' = o
    /\ target' = name
    /\ cpc' = "discovering"
    /\ idx' = 1
    /\ available' = <<>>
    /\ results' = <<>>
    /\ outstanding' = {}
    /\ sent' = <<>>
    /\ ret' = NoReturn
    /\ began' = nflips
    /\ UNCHANGED <<endpoint, nflips, last>>
    /\ UNCHANGED <<ledgerVars, bridgeVars, convVars>>

\* main() calls the coordinator's operations one after the other
call_discover_restaurants ==
    /\ cpc \in {"idle", "returned"}
    /\ nops < MaxOps
    /\ Call("discover_restaurants", None)

call_check_all_availability ==
    /\ cpc \in {"idle", "returned"}
    /\ nops < MaxOps
    /\ Call("check_all_availability", None)

\* book_at_restaurant(restaurant_name, ...) / the book_restaurant tool
call_book_at_restaurant(name) ==
    /\ cpc \in {"idle", "returned"}
    /\ nops < MaxOps
    /\ Call("book_at_restaurant", name)

\* the cancel_booking tool / the cancel intent of main()
call_cancel_booking(name) ==
    /\ cpc \in {"idle", "returned"}
    /\ nops < MaxOps
    /\ Call("cancel_booking", name)

\* the keys of a mapping kept as a sequence
Range(q) == { q[i] : i \in DOMAIN q }

\* the agents the operation queries: every discovered one, or the named one
Queried == IF cop = "check_all_availability" THEN available ELSE <<target>>

\* variant: every operation sends the booking query
QueryMessage_AlwaysBook(name) == [to |-> name, query |-> "Book a table"]

\* the query message of the operation, as sent to an agent
QueryMessage(name) ==
    [to |-> name,
     query |-> CASE cop = "book_at_restaurant" -> "Book a table"
                 [] cop = "cancel_booking" -> "Cancel booking"
                 [] OTHER -> "Check availability"]

\* variant: the first endpoint that fails ends the loop
discover_probe_StopsAtFailure ==
    /\ cpc = "discovering"
    /\ idx <= Len(Table)
    /\ available' = IF endpoint[Table[idx]] = "up"
                    THEN Append(available, Table[idx]) ELSE available
    /\ idx' = IF endpoint[Table[idx]] = "up" THEN idx + 1 ELSE Len(Table) + 1
    /\ UNCHANGED <<endpoint, nflips, cop, cpc, results, outstanding, sent, ret, began,
                   last, nops>>
    /\ UNCHANGED target
    /\ UNCHANGED <<ledgerVars, bridgeVars, convVars>>

\* variant: the exception of get_agent_card reaches the caller
discover_probe_Raises ==
    /\ cpc = "discovering"
    /\ idx <= Len(Table)
    /\ IF endpoint[Table[idx]] = "up"
       THEN /\ available' = Append(available, Table[idx])
            /\ idx' = idx + 1
            /\ UNCHANGED <<cpc, ret>>
       ELSE /\ ret' = [kind |-> "raised", keys |-> <<>>, entries |-> <<>>]
            /\ cpc' = "returned"
            /\ UNCHANGED <<available, idx>>
    /\ UNCHANGED <<endpoint, nflips, cop, results, outstanding, sent, began, last, nops>>
    /\ UNCHANGED target
    /\ UNCHANGED <<ledgerVars, bridgeVars, convVars>>

\* one turn of "for name, url in self.restaurants.items()": get_agent_card()
\* returns the card, or raises and the except clause logs a warning
discover_probe ==
    /\ cpc = "discovering"
    /\ idx <= Len(Table)
    /\ available' = IF endpoint[Table[idx]] = "up"
                    THEN Append(available, Table[idx]) ELSE available
    /\ idx' = idx + 1
    /\ UNCHANGED <<endpoint, nflips, cop, cpc, results, outstanding, sent, ret, began,
                   last, nops>>
    /\ UNCHANGED target
    /\ UNCHANGED <<ledgerVars, bridgeVars, convVars>>

\* variant: the caller goes on to the query loop with an empty mapping
discover_return_NoSentinel ==
    /\ cpc = "discovering"
    /\ idx > Len(Table)
    /\ last' = [has |-> TRUE, keys |-> available, began |-> began]
    /\ IF cop = "discover_restaurants"
       THEN /\ ret' = [kind |-> "mapping", keys |-> available, entries |-> <<>>]
            /\ cpc' = "returned"
            /\ idx' = idx
       ELSE IF cop # "check_all_availability" /\ target \notin Range(available)
            THEN /\ ret' = [kind |-> "not_available", keys |-> <<>>, entries |-> <<>>]
                 /\ cpc' = "returned"
                 /\ idx' = idx
            ELSE /\ ret' = ret
                 /\ cpc' = "querying"
                 /\ idx' = 1
    /\ UNCHANGED <<endpoint, nflips, cop, available, results, outstanding, sent, began,
                   nops>>
    /\ UNCHANGED target
    /\ UNCHANGED <<ledgerVars, bridgeVars, convVars>>

\* variant: the named restaurant is queried without being looked up
discover_return_SkipsLookup ==
    /\ cpc = "discovering"
    /\ idx > Len(Table)
    /\ last' = [has |-> TRUE, keys |-> available, began |-> began]
    /\ IF cop = "discover_restaurants"
       THEN /\ ret' = [kind |-> "mapping", keys |-> available, entries |-> <<>>]
            /\ cpc' = "returned"
            /\ idx' = idx
       ELSE IF cop = "check_all_availability" /\ available = <<>>
            THEN /\ ret' = [kind |-> "no_restaurants", keys |-> <<>>, entries |-> <<>>]
                 /\ cpc' = "returned"
                 /\ idx' = idx
            ELSE /\ ret' = ret
                 /\ cpc' = "querying"
                 /\ idx' = 1
    /\ UNCHANGED <<endpoint, nflips, cop, available, results, outstanding, sent, began,
                   nops>>
    /\ UNCHANGED target
    /\ UNCHANGED <<ledgerVars, bridgeVars, convVars>>

\* return available_restaurants, and what the caller does with it first
discover_return ==
    /\ cpc = "discovering"
    /\ idx > Len(Table)
    /\ last' = [has |-> TRUE, keys |-> available, began |-> began]
    /\ IF cop = "discover_restaurants"
       THEN /\ ret' = [kind |-> "mapping", keys |-> available, entries |-> <<>>]
            /\ cpc' = "returned"
            /\ idx' = idx
       ELSE IF cop = "check_all_availability" /\ available = <<>>
            THEN \* if not restaurants: return the sentinel
                 /\ ret' = [kind |-> "no_restaurants", keys |-> <<>>, entries |-> <<>>]
                 /\ cpc' = "returned"
                 /\ idx' = idx
            ELSE IF cop # "check_all_availability" /\ target \notin Range(available)
                 THEN \* if restaurant_name not in restaurants: return the error
                      /\ ret' = [kind |-> "not_available", keys |-> <<>>, entries |-> <<>>]
                      /\ cpc' = "returned"
                      /\ idx' = idx
                 ELSE /\ ret' = ret
                      /\ cpc' = "querying"
                      /\ idx' = 1
    /\ UNCHANGED <<endpoint, nflips, cop, available, results, outstanding, sent, began,
                   nops>>
    /\ UNCHANGED target
    /\ UNCHANGED <<ledgerVars, bridgeVars, convVars>>

\* the result query_restaurant returns for one agent
QueryResult(name, kind) == [name |-> name, kind |-> kind]

\* variant: the exception of the card fetch leaves query_restaurant and the
\* operation
query_send_Raises ==
    /\ cpc = "querying"
    /\ idx <= Len(Queried)
    /\ LET name == Queried[idx] IN
       IF endpoint[name] = "up"
       THEN /\ sent' = Append(sent, QueryMessage(name))
            /\ outstanding' = {name}
            /\ cpc' = "awaiting"
            /\ UNCHANGED <<results, idx, ret>>
       ELSE /\ ret' = [kind |-> "raised", keys |-> <<>>, entries |-> <<>>]
            /\ cpc' = "returned"
            /\ UNCHANGED <<sent, outstanding, results, idx>>
    /\ UNCHANGED <<endpoint, nflips, cop, available, began, last, nops>>
    /\ UNCHANGED target
    /\ UNCHANGED <<ledgerVars, bridgeVars, convVars>>

\* one turn of "for name, restaurant_info in restaurants.items()", up to the
\* await inside query_restaurant: the card is fetched on a fresh client and
\* the message is sent, or the fetch raises and the error string is the result
query_send ==
    /\ cpc = "querying"
    /\ idx <= Len(Queried)
    /\ LET name == Queried[idx] IN
       IF endpoint[name] = "up"
       THEN /\ sent' = Append(sent, QueryMessage(name))
            /\ outstanding' = {name}
            /\ cpc' = "awaiting"
            /\ UNCHANGED <<results, idx>>
       ELSE /\ results' = Append(results, QueryResult(name, "error"))
            /\ idx' = idx + 1
            /\ UNCHANGED <<sent, outstanding, cpc>>
    /\ UNCHANGED <<endpoint, nflips, cop, available, ret, began, last, nops>>
    /\ UNCHANGED target
    /\ UNCHANGED <<ledgerVars, bridgeVars, convVars>>

\* a variant of query_response that files the newest answer first
query_response_NewestFirst ==
    /\ cpc = "awaiting"
    /\ LET name == Queried[idx] IN
       /\ results' = <<QueryResult(name, IF endpoint[name] = "up" THEN "response" ELSE "error")>>
                        \o results
       /\ outstanding' = outstanding \ {name}
    /\ idx' = idx + 1
    /\ cpc' = "querying"
    /\ UNCHANGED <<endpoint, nflips, cop, available, sent, ret, began, last, nops>>
    /\ UNCHANGED target
    /\ UNCHANGED <<ledgerVars, bridgeVars, convVars>>

\* send_message returns the response, or raises (connection lost, timeout) and
\* the except clause returns the error string; the result is appended
query_response ==
    /\ cpc = "awaiting"
    /\ LET name == Queried[idx] IN
       /\ results' = Append(results,
              QueryResult(name, IF endpoint[name] = "up" THEN "response" ELSE "error"))
       /\ outstanding' = outstanding \ {name}
    /\ idx' = idx + 1
    /\ cpc' = "querying"
    /\ UNCHANGED <<endpoint, nflips, cop, available, sent, ret, began, last, nops>>
    /\ UNCHANGED target
    /\ UNCHANGED <<ledgerVars, bridgeVars, convVars>>

\* return "\n".join(results)
check_all_return ==
    /\ cop = "check_all_availability"
    /\ cpc = "querying"
    /\ idx > Len(available)
    /\ ret' = [kind |-> "report", keys |-> <<>>, entries |-> results]
    /\ cpc' = "returned"
    /\ UNCHANGED <<endpoint, nflips, cop, idx, available, results, outstanding, sent,
                   began, last, nops>>
    /\ UNCHANGED target
    /\ UNCHANGED <<ledgerVars, bridgeVars, convVars>>

\* the caller's deadline cancels the operation while it awaits a query:
\* CancelledError is raised at the await; it is not an Exception, so the except
\* clause of query_restaurant lets it through, the client's context manager
\* drops the request, and check_all_availability is left without a return
check_all_cancelled ==
    /\ cop = "check_all_availability"
    /\ cpc = "awaiting"
    /\ outstanding' = {}
    /\ ret' = [kind |-> "CancelledError", keys |-> <<>>, entries |-> <<>>]
    /\ cpc' = "returned"
    /\ UNCHANGED <<endpoint, nflips, cop, idx, available, results, sent, began, last,
                   nops>>
    /\ UNCHANGED target
    /\ UNCHANGED <<ledgerVars, bridgeVars, convVars>>

\* return response: the answer of the one agent, or the error string
book_or_cancel_return ==
    /\ cop \in {"book_at_restaurant", "cancel_booking"}
    /\ cpc = "querying"
    /\ idx > Len(Queried)
    /\ ret' = [kind |-> "response", keys |-> <<>>, entries |-> results]
    /\ cpc' = "returned"
    /\ UNCHANGED <<endpoint, nflips, cop, idx, available, results, outstanding, sent,
                   began, last, nops>>
    /\ UNCHANGED target
    /\ UNCHANGED <<ledgerVars, bridgeVars, convVars>>

\* the restaurant names the operations on one restaurant are called with
RestaurantNames == {Ramen, Takoyaki, "Pizza Roma"}

\* the agents run or not when the coordinator starts
CoordInit ==
    /\ ledger = [a \in Agents |-> AgentMain(a, <<>>)]
    /\ ThreadsInit
    /\ server = TakoyakiBridge
    /\ endpoint \in [Agents -> EndpointStates]
    /\ ConverterIdle

CoordNext ==
    \/ \E n \in Agents, st \in EndpointStates : endpoint_changes(n, st)
    \/ call_discover_restaurants
    \/ call_check_all_availability
    \/ discover_probe
    \/ discover_return
    \/ query_send
    \/ query_response
    \/ check_all_return
    \/ check_all_cancelled
    \/ \E name \in RestaurantNames : call_book_at_restaurant(name)
    \/ \E name \in RestaurantNames : call_cancel_booking(name)
    \/ book_or_cancel_return

CoordSpec == CoordInit /\ [][CoordNext]_vars

(***************************************************************************)
(* Properties of the coordinator                                           *)
(***************************************************************************)
\* the configured names whose endpoint serves a parseable card
Up == { n \in Agents : endpoint[n] = "up" }
\* no endpoint has changed since the discovery in progress began
Steady == began = nflips

\* C17: the keys discover_restaurants returns are exactly the configured names
\* whose card fetch succeeded: each turn of the loop adds the name iff its
\* endpoint answers, a failure stops nothing, and with the endpoints steady
\* during the call the keys are the names that are up, in table order.
C17_DiscoveredAreExactlyReachable ==
    [][/\ (cpc = "discovering" /\ idx <= Len(Table) /\ available' # available)
              => /\ endpoint[Table[idx]] = "up"
                 /\ available' = Append(available, Table[idx])
       /\ (cpc = "discovering" /\ idx <= Len(Table) /\ endpoint' = endpoint
                /\ available' = available)
              => endpoint[Table[idx]] # "up" /\ idx' = idx + 1
       /\ (cpc' = "returned" /\ cop' = "discover_restaurants")
              => /\ idx' = Len(Table) + 1
                 /\ ret'.keys = available'
                 /\ Steady' => Range(ret'.keys) = Up'
                 /\ \A i, j \in DOMAIN ret'.keys : \A a, b \in DOMAIN Table :
                        (i < j /\ Table[a] = ret'.keys[i] /\ Table[b] = ret'.keys[j])
                            => a < b]_vars

\* the first and the last entry of the table were discovered around a failing
\* middle one
C17_Witness ==
    /\ cpc = "returned"
    /\ cop = "discover_restaurants"
    /\ Steady
    /\ endpoint[Table[2]] # "up"
    /\ ret.keys = <<Table[1], Table[3]>>

\* C18: discover_restaurants never raises on endpoint failure: it always
\* returns a mapping after going through the whole table, the empty mapping
\* when every endpoint fails.
C18_DiscoveryNeverRaises ==
    /\ cpc = "returned" => ret.kind # "raised"
    /\ (cpc = "returned" /\ cop = "discover_restaurants")
           => /\ ret.kind = "mapping"
              /\ idx = Len(Table) + 1
              /\ (Steady /\ Up = {}) => ret.keys = <<>>
    /\ cpc \in {"querying", "awaiting"} => last.has /\ last.began = began

\* every endpoint failed, for different reasons, and the result is the empty
\* mapping
C18_Witness ==
    /\ cpc = "returned"
    /\ cop = "discover_restaurants"
    /\ Steady
    /\ Up = {}
    /\ \E n, m \in Agents : endpoint[n] = "unreachable" /\ endpoint[m] = "malformed"
    /\ ret = [kind |-> "mapping", keys |-> <<>>, entries |-> <<>>]

\* C19: discover_restaurants keeps no state across calls: a call starts from
\* an empty mapping, a call made with the endpoints unchanged since the
\* previous call began returns the same names, and with the endpoints steady
\* during a call its result is the names that are up then.
C19_DiscoveryIsStateless ==
    [][/\ (cpc' = "discovering" /\ cpc # "discovering") => available' = <<>>
       /\ (cpc = "discovering" /\ cpc' # "discovering")
              => /\ (last.has /\ last.began = nflips) => available = last.keys
                 /\ Steady => Range(available) = Up
                 /\ last' = [has |-> TRUE, keys |-> available, began |-> began]]_vars

\* a second discovery has gone through the table with the endpoints as they
\* were during the first, and found the same names, not all of them
C19_Witness ==
    /\ cpc = "discovering"
    /\ idx = Len(Table) + 1
    /\ nops = 2
    /\ last.has
    /\ last.began = nflips
    /\ available = last.keys
    /\ Len(available) = 2

\* C20: check_all_availability queries the agents concurrently: while the
\* query to an agent is outstanding and a later discovered agent has not been
\* queried, the query to the later agent can be sent.
C20_QueriesAreConcurrent ==
    (cop = "check_all_availability" /\ outstanding # {} /\ idx < Len(available))
        => ENABLED query_send

\* the results collected so far are those of the first agents of the
\* discovery result, one each and in that order
OnePerAgent(rs, names) ==
    /\ Len(rs) <= Len(names)
    /\ \A i \in DOMAIN rs : rs[i].name = names[i] /\ rs[i].kind \in {"response", "error"}

\* C21: in check_all_availability the failure of one agent's query becomes the
\* error string of that agent's entry: the operation does not raise, the loop
\* goes on to the next agent, and the report has exactly one entry per
\* discovered agent.
C21_QueryFailureIsInlineError ==
    [][cop' = "check_all_availability" =>
          /\ cpc' \in {"querying", "awaiting"}
                 => Len(results') = idx' - 1 /\ OnePerAgent(results', available')
          /\ (cpc \in {"querying", "awaiting"} /\ results' # results)
                 => /\ \E kind \in {"response", "error"} :
                         results' = Append(results, QueryResult(available[idx], kind))
                    /\ endpoint[available[idx]] # "up"
                           => results'[Len(results')].kind = "error"
                    /\ idx' = idx + 1
                    /\ cpc' = "querying"
          /\ cpc' = "returned"
                 => /\ ret'.kind # "raised"
                    /\ ret'.kind = "report"
                           => /\ Len(ret'.entries) = Len(available')
                              /\ OnePerAgent(ret'.entries, available')]_vars

\* the report of three discovered agents: the query to the first failed, the
\* second answered after it
C21_Witness ==
    /\ cop = "check_all_availability"
    /\ cpc = "returned"
    /\ ret.kind = "report"
    /\ Len(ret.entries) = 3
    /\ ret.entries[1].kind = "error"
    /\ ret.entries[2].kind = "response"

\* C22: when discovery returns the empty mapping, check_all_availability
\* returns the 'no restaurants' sentinel as its result, without raising and
\* without a query message to any agent; it returns the sentinel in no other
\* case.
C22_EmptyDiscoveryGivesSentinel ==
    (cop = "check_all_availability" /\ cpc # "discovering")
        => /\ available = <<>>
                 => /\ cpc = "returned"
                    /\ ret = [kind |-> "no_restaurants", keys |-> <<>>, entries |-> <<>>]
                    /\ sent = <<>>
                    /\ results = <<>>
                    /\ outstanding = {}
           /\ ret.kind = "no_restaurants" => available = <<>>

\* no agent is running and check_all_availability has returned the sentinel
C22_Witness ==
    /\ cop = "check_all_availability"
    /\ cpc = "returned"
    /\ Up = {}
    /\ Steady
    /\ available = <<>>
    /\ ret.kind = "no_restaurants"
    /\ sent = <<>>

\* the resolution pattern of the operations on one restaurant: operation o,
\* once its discovery has returned, has sent nothing and returns the 'not
\* available' error when the name is not among the discovered; otherwise it
\* queries the named agent once: at most one message, to that agent and with
\* query q, and exactly one when no endpoint changed since the operation began
ResolvesThenQueriesOnce(o, q) ==
    (cop = o /\ cpc # "discovering") =>
        /\ \A i \in DOMAIN sent : sent[i] = [to |-> target, query |-> q]
        /\ Len(sent) <= 1
        /\ Len(results) <= 1
        /\ target \notin Range(available)
               => /\ cpc = "returned"
                  /\ ret = [kind |-> "not_available", keys |-> <<>>, entries |-> <<>>]
                  /\ sent = <<>>
                  /\ results = <<>>
        /\ (target \in Range(available) /\ cpc = "returned")
               => /\ ret.kind = "response"
                  /\ Len(ret.entries) = 1
                  /\ ret.entries[1].name = target
                  /\ ret.entries[1].kind = "response" => Len(sent) = 1
                  /\ Steady => Len(sent) = 1 /\ ret.entries[1].kind = "response"

\* C23: book_at_restaurant sends a booking query iff the named agent is in
\* the discovery result of the call: absent, it returns the 'not available'
\* error and sends nothing; present, it sends one booking message, to the
\* named agent only.
C23_BookContactsOnlyDiscoveredTarget ==
    ResolvesThenQueriesOnce("book_at_restaurant", "Book a table")

\* a booking was sent to the one named agent out of three discovered, and
\* answered
C23_Witness ==
    /\ cop = "book_at_restaurant"
    /\ cpc = "returned"
    /\ Len(available) = 3
    /\ target = Ramen
    /\ sent = <<[to |-> Ramen, query |-> "Book a table"]>>
    /\ ret.kind = "response"
    /\ ret.entries = <<QueryResult(Ramen, "response")>>

\* C24: cancel_booking follows the same pattern: it re-runs discovery, returns
\* the 'not available' error without sending anything when the named agent is
\* absent, and otherwise sends one cancellation query, to the named agent
\* only.
C24_CancelContactsOnlyDiscoveredTarget ==
    /\ ResolvesThenQueriesOnce("cancel_booking", "Cancel booking")
    /\ (cop = "cancel_booking" /\ cpc # "discovering")
           => last = [has |-> TRUE, keys |-> available, began |-> began]

\* the named agent was down while the other two were discovered: the
\* cancellation returned 'not available' and nothing was sent
C24_Witness ==
    /\ cop = "cancel_booking"
    /\ cpc = "returned"
    /\ target = Takoyaki
    /\ available = <<Sushi, Ramen>>
    /\ ret.kind = "not_available"
    /\ sent = <<>>

\* C25: when check_all_availability is cancelled while queries are
\* outstanding, the outstanding queries are aborted and the results already
\* received are still returned to the caller.
C25_CancellationReturnsPartialResults ==
    (cop = "check_all_availability" /\ cpc = "returned" /\ ret.kind = "CancelledError")
        => /\ outstanding = {}
           /\ ret.entries = results


(***************************************************************************)
(* Part IV - converters: the four functions applied to bounded inputs      *)
(***************************************************************************)
\* mimeType of a file part: a type, the empty string, or absent
MimeTypes == {"image/png", "", None}

\* the canonical parts given to the converters
A2AParts ==
    {TextPart("Two boxes of takoyaki"), TextPart(""), DataPart}
    \cup {FileWithUri("gs://menu/takoyaki.png", m) : m \in MimeTypes}
    \cup {FileWithBytes("dGFrb3lha2k=", m) : m \in MimeTypes}

\* the native parts given to the converters: each carries at most one of
\* text, file_data and inline_data
GenaiParts ==
    {GenaiText("Booking confirmed"), GenaiText(""), GenaiFunctionPart}
    \cup {GenaiPart(None, TRUE, u, "image/png", FALSE, None, None) :
                u \in {"gs://menu/takoyaki.png", None}}
    \cup {GenaiPart(None, TRUE, "gs://menu/takoyaki.png", m, FALSE, None, None) :
                m \in MimeTypes}
    \cup {GenaiPart(None, FALSE, None, None, TRUE, d, "image/png") :
                d \in {"dGFrb3lha2k=", None, NotUtf8}}
    \cup {GenaiPart(None, FALSE, None, None, TRUE, "dGFrb3lha2k=", m) :
                m \in MimeTypes}

\* the lists of at most n elements of S
ListsOf(S, n) == UNION {[1..k -> S] : k \in 0..n}

PartConverters == {"convert_a2a_part_to_genai", "convert_genai_part_to_a2a"}
ListConverters == {"convert_a2a_parts_to_genai", "convert_genai_parts_to_a2a"}
FromA2A == {"convert_a2a_part_to_genai", "convert_a2a_parts_to_genai"}

\* a call of convert_a2a_part_to_genai
call_convert_a2a_part_to_genai ==
    /\ cdir = "convert_a2a_part_to_genai"
    /\ cstep = 0
    /\ cout' = convert_a2a_part_to_genai(cin[1])
    /\ cstep' = 1
    /\ UNCHANGED <<cdir, cin, cback>>
    /\ UNCHANGED <<ledgerVars, bridgeVars, coordVars>>

\* a call of convert_genai_part_to_a2a
call_convert_genai_part_to_a2a ==
    /\ cdir = "convert_genai_part_to_a2a"
    /\ cstep = 0
    /\ cout' = convert_genai_part_to_a2a(cin[1])
    /\ cstep' = 1
    /\ UNCHANGED <<cdir, cin, cback>>
    /\ UNCHANGED <<ledgerVars, bridgeVars, coordVars>>

\* a call of convert_a2a_parts_to_genai
call_convert_a2a_parts_to_genai ==
    /\ cdir = "convert_a2a_parts_to_genai"
    /\ cstep = 0
    /\ cout' = convert_a2a_parts_to_genai(cin)
    /\ cstep' = 1
    /\ UNCHANGED <<cdir, cin, cback>>
    /\ UNCHANGED <<ledgerVars, bridgeVars, coordVars>>

\* a call of convert_genai_parts_to_a2a
call_convert_genai_parts_to_a2a ==
    /\ cdir = "convert_genai_parts_to_a2a"
    /\ cstep = 0
    /\ cout' = convert_genai_parts_to_a2a(cin)
    /\ cstep' = 1
    /\ UNCHANGED <<cdir, cin, cback>>
    /\ UNCHANGED <<ledgerVars, bridgeVars, coordVars>>

\* the native parts convert_a2a_parts_to_genai returned are given to
\* convert_genai_parts_to_a2a
back_to_a2a ==
    /\ cdir = "convert_a2a_parts_to_genai"
    /\ cstep = 1
    /\ cout.ok
    /\ cback' = convert_genai_parts_to_a2a(cout.parts)
    /\ cstep' = 2
    /\ UNCHANGED <<cdir, cin, cout>>
    /\ UNCHANGED <<ledgerVars, bridgeVars, coordVars>>

\* the canonical parts convert_genai_parts_to_a2a returned are given to
\* convert_a2a_parts_to_genai
back_to_genai ==
    /\ cdir = "convert_genai_parts_to_a2a"
    /\ cstep = 1
    /\ cout.ok
    /\ cback' = convert_a2a_parts_to_genai(cout.parts)
    /\ cstep' = 2
    /\ UNCHANGED <<cdir, cin, cout>>
    /\ UNCHANGED <<ledgerVars, bridgeVars, coordVars>>

ConvInit ==
    /\ ledger = [a \in Agents |-> AgentMain(a, <<>>)]
    /\ ThreadsInit
    /\ server = TakoyakiBridge
    /\ endpoint = [n \in Agents |-> "up"]
    /\ cdir \in PartConverters \cup ListConverters
    /\ cin \in IF cdir \in PartConverters
               THEN [1..1 -> IF cdir \in FromA2A THEN A2AParts ELSE GenaiParts]
               ELSE ListsOf(IF cdir \in FromA2A THEN A2AParts ELSE GenaiParts, MaxParts)
    /\ cout = NotConverted
    /\ cback = NotConverted
    /\ cstep = 0

ConvNext ==
    \/ call_convert_a2a_part_to_genai
    \/ call_convert_genai_part_to_a2a
    \/ call_convert_a2a_parts_to_genai
    \/ call_convert_genai_parts_to_a2a
    \/ back_to_a2a
    \/ back_to_genai

ConvSpec == ConvInit /\ [][ConvNext]_vars

(***************************************************************************)
(* Part IV - converters: properties                                        *)
(***************************************************************************)
\* the converter under study has returned or raised
Called(c) == cdir = c /\ cstep >= 1

\* C26: text conversion is total and lossless: for every string s, the empty
\* string included, the list <<Text(s)>> converts to native form without an
\* error and converting the result back gives <<Text(s)>> again.
C26_TextRoundTripIsLossless ==
    (Called("convert_a2a_parts_to_genai") /\ Len(cin) = 1 /\ cin[1].kind = "text") =>
        /\ cout.ok
        /\ cstep = 2 => cback = Converted(cin)

\* a canonical file part whose mime type is missing or empty
A2AFileWithoutMimeType(part) ==
    part.kind \in {"file_uri", "file_bytes"} /\ ~Truthy(part.mimeType)

\* a native file part, complete but for its mime type, which is missing or empty
GenaiFileWithoutMimeType(part) ==
    /\ ~Truthy(part.text)
    /\ \/ part.has_file_data /\ Truthy(part.file_uri) /\ ~Truthy(part.file_mime)
       \/ /\ ~part.has_file_data /\ part.has_inline_data
          /\ Truthy(part.data) /\ part.data # NotUtf8
          /\ ~Truthy(part.inline_mime)

\* C27: the conversion of a file part whose mime type is missing or empty
\* fails, in both directions and for both kinds of file part: the converter
\* raises, produces no part and substitutes no default mime type.
C27_FileWithoutMimeTypeFails ==
    /\ (Called("convert_a2a_part_to_genai") /\ A2AFileWithoutMimeType(cin[1])) =>
            cout = ConversionError
    /\ (Called("convert_genai_part_to_a2a") /\ GenaiFileWithoutMimeType(cin[1])) =>
            cout = ConversionError

\* a native file-by-URI part that has no URI
GenaiFileWithoutUri(part) ==
    ~Truthy(part.text) /\ part.has_file_data /\ ~Truthy(part.file_uri)

\* a native inline-bytes part that has no byte payload
GenaiInlineWithoutData(part) ==
    /\ ~Truthy(part.text) /\ ~part.has_file_data
    /\ part.has_inline_data /\ ~Truthy(part.data)

\* a native part that is neither text nor file_data nor inline_data
GenaiUnsupported(part) ==
    ~Truthy(part.text) /\ ~part.has_file_data /\ ~part.has_inline_data

\* a canonical part that is neither TextPart nor FilePart
A2AUnsupported(part) == part.kind \notin {"text", "file_uri", "file_bytes"}

\* C28: a converter raises, and returns no part at all, when it is given a
\* native file-by-URI part without URI, a native inline-bytes part without
\* bytes, or a part of an unsupported shape (either direction); a list
\* converter that reaches such a part raises too.
C28_MalformedPartsRaise ==
    /\ (Called("convert_genai_part_to_a2a")
            /\ \/ GenaiFileWithoutUri(cin[1])
               \/ GenaiInlineWithoutData(cin[1])
               \/ GenaiUnsupported(cin[1])) =>
            cout = ConversionError
    /\ (Called("convert_a2a_part_to_genai") /\ A2AUnsupported(cin[1])) =>
            cout = ConversionError
    /\ (Called("convert_genai_parts_to_a2a")
            /\ \E i \in DOMAIN cin :
                    GenaiFileWithoutUri(cin[i]) \/ GenaiInlineWithoutData(cin[i])) =>
            cout = ConversionError
    /\ (Called("convert_a2a_parts_to_genai")
            /\ \E i \in DOMAIN cin : A2AUnsupported(cin[i])) =>
            cout = ConversionError

\* C28 witness: convert_genai_part_to_a2a was given a part that holds only a
\* function call and raised.
C28_Witness ==
    /\ Called("convert_genai_part_to_a2a")
    /\ cin = <<GenaiFunctionPart>>
    /\ cout = ConversionError

\* the native parts that carry text or a file payload, in their order
PayloadParts(parts) ==
    SelectSeq(parts, LAMBDA p : Truthy(p.text) \/ p.has_file_data \/ p.has_inline_data)

\* C29: list conversion keeps the order of the parts. Canonical to native,
\* the result has the length of the input and its i-th part is the
\* conversion of the i-th input part. Native to canonical, the result is
\* the conversions of the parts that carry text or a file payload, in their
\* original order; the parts that carry neither are dropped and never make
\* the call raise.
C29_ListConversionKeepsOrder ==
    /\ Called("convert_a2a_parts_to_genai") =>
            /\ cout.ok <=> \A i \in DOMAIN cin : convert_a2a_part_to_genai(cin[i]).ok
            /\ cout.ok =>
                    /\ Len(cout.parts) = Len(cin)
                    /\ \A i \in DOMAIN cin :
                            <<cout.parts[i]>> = convert_a2a_part_to_genai(cin[i]).parts
    /\ Called("convert_genai_parts_to_a2a") =>
            LET kept == PayloadParts(cin) IN
            /\ cout.ok <=> \A i \in DOMAIN kept : convert_genai_part_to_a2a(kept[i]).ok
            /\ cout.ok =>
                    /\ Len(cout.parts) = Len(kept)
                    /\ \A i \in DOMAIN kept :
                            <<cout.parts[i]>> = convert_genai_part_to_a2a(kept[i]).parts

\* C29 witness: a text part, a part holding only a function call and a file
\* part were converted to the text part and the file part, in that order.
C29_Witness ==
    /\ Called("convert_genai_parts_to_a2a")
    /\ cin = << GenaiText("Booking confirmed"),
                GenaiFunctionPart,
                GenaiPart(None, TRUE, "gs://menu/takoyaki.png", "image/png",
                          FALSE, None, None) >>
    /\ cout = Converted(<< TextPart("Booking confirmed"),
                           FileWithUri("gs://menu/takoyaki.png", "image/png") >>)

(***************************************************************************)
(* Part III - coordinator: the order of the report                         *)
(***************************************************************************)
\* the name table restricted to a set of names, in the table's order
TableRestrictedTo(names) == SelectSeq(Table, LAMBDA n : n \in names)

\* C33: the report of check_all_availability lists its entries in the order
\* of the configured name table restricted to the discovered agents,
\* whichever of them answered and whichever failed.
C33_ReportInRegistryOrder ==
    (cop = "check_all_availability" /\ cpc = "returned" /\ ret.kind = "report") =>
        /\ available = TableRestrictedTo(Range(available))
        /\ [i \in DOMAIN ret.entries |-> ret.entries[i].name] = available

\* C33 witness: Tokyo Ramen was not discovered; the report holds the answer of
\* Sushi Maru and then the error entry of Takoyaki Taro, which stopped after
\* discovery.
C33_Witness ==
    /\ cop = "check_all_availability"
    /\ cpc = "returned"
    /\ ret.kind = "report"
    /\ ret.entries = <<QueryResult(Sushi, "response"), QueryResult(Takoyaki, "error")>>

=============================================================================
